---- MODULE Spec2Model ----
(***************************************************************************)
(* A model of mcdownload (paenis/mcdownload).                              *)
(*                                                                         *)
(*  SpecInstall : install_versions / install_jre / run_instance of         *)
(*                src/src/app.rs, the tokio JoinSet of install tasks and   *)
(*                the metadata store.                                      *)
(*  SpecCache   : get_cached / fetch_json / Cached of src/src/net.rs, the  *)
(*                response cache and the retrying fetch.                   *)
(*  SpecParse   : the version number parsers of src/src/minecraft.rs and   *)
(*                the Display of what they return.                         *)
(*  SpecId      : GeneratedIdentifier of src/src/identifiers/generated.rs, *)
(*                its string form and the parser of that form.             *)
(*  SpecServer  : the parsers of a server specification                    *)
(*                [<version>][:[<name>][:[<server type>]]] in lib.rs,      *)
(*                command/install.rs and metadata.rs.                      *)
(***************************************************************************)
EXTENDS Integers, Sequences, FiniteSets, TLC

(***************************************************************************)
(* Bounds of the model.                                                    *)
(***************************************************************************)
\* longest list of versions handed to one install_versions call
MaxBatch == 2

(***************************************************************************)
(* The world: the versions of the manifest and their metadata.             *)
(***************************************************************************)
Versions == {"1.20.1", "1.20.2", "1.19.4"}

Majors == {8, 17}

\* version_meta.java_version.major_version
JavaOf(v) == IF v = "1.19.4" THEN 8 ELSE 17

\* version_meta.downloads.contains_key("server")
HasServer(v) == v # "1.19.4"

Slots == 1..MaxBatch

Batches == UNION {[1..n -> Versions] : n \in 1..MaxBatch}

\* instance_jre[v]: the runtime major recorded for the instance of v, 0 if
\* there is no instance
EmptyMeta == [jres |-> {}, instances |-> {}, instance_jre |-> [v \in Versions |-> 0]]

VARIABLES
    batch,          \* versions: Vec<&GameVersion> of this run
    mainPc,         \* install_versions: "dispatch", "join" or "done"
    idx,            \* position of the dispatch loop in batch
    mainResult,     \* what install_versions returned: "none", "ok", "err"
    jres_installed, \* the local Vec<u8> of majors queued in this batch
    srv,            \* srv[i]: state of the server task spawned in iteration i
    jre,            \* jre[i]: state of the JRE task spawned in iteration i
    metaMem,        \* META: the in-memory AppMeta
    metaDisk,       \* the AppMeta stored at META_PATH
    instDir,        \* instDir[v]: instance directory and settings file of v:
                    \*   "none", "partial" (some of server.jar, eula.txt and
                    \*   the settings file are missing or cut short), "complete"
    jreDir,         \* jreDir[m]: runtime directory of m: "none", "partial", "ok"
    srvDl,          \* srvDl[v]: server jar downloads of v in this run
    jreDl,          \* jreDl[m]: JRE archives of major m downloaded (and then
                    \*   handed to extract_jre) in this run
    metaAtStart,    \* metaMem when the run started
    jreDirAtStart,  \* jreDir when the run started
    instAtStart,    \* instDir when the run started
    doneBefore,     \* versions whose install reached "Done!" in an earlier run
    failedAt        \* iteration whose metadata fetch failed, 0 if none

installVars == <<batch, mainPc, idx, mainResult, jres_installed, srv, jre,
                 metaMem, metaDisk, instDir, jreDir, srvDl, jreDl,
                 metaAtStart, jreDirAtStart, instAtStart, doneBefore, failedAt>>

VARIABLES
    now,            \* SystemTime::now(), in seconds
    cache,          \* the file at cache_path(uri)
    gpc,            \* get_cached: "idle", "fetch" (inside fetch_json), "returned"
    ttl,            \* the ttl argument of the call
    cacheAtStart,   \* cache when the call started
    loads,          \* Cached::load calls of this call
    saves,          \* Cached::save calls of this call
    fetches,        \* fetch_json calls of this call
    requests,       \* AGENT.get(path).call() calls of this call
    result,         \* what the call returned
    resp,           \* the response that fetch_json returned
    lastErr,        \* the failure of the latest request
    attempts,       \* fetch_json: attempts
    elapsed,        \* fetch_json: start_time.elapsed(), in milliseconds
    slept,          \* fetch_json: the sum of its sleeps, in milliseconds
    last,           \* summary of the latest call that returned
    prev            \* summary of the call before this one

cacheVars == <<now, cache, gpc, ttl, cacheAtStart, loads, saves, fetches,
               requests, result, resp, lastErr, attempts, elapsed, slept,
               last, prev>>

VARIABLES
    input,          \* the string handed to a parser
    ppc,            \* "input", then "parsed", then "shown"
    parsed,         \* what version_number.parse(input) returned
    shown,          \* parsed.to_string()
    released,       \* what release_version.parse(input) returned
    snapped,        \* what snapshot_version.parse(input) returned
    deserialized    \* what serde_json::from_str::<VersionNumber> returned for
                    \*   the JSON string input

parseVars == <<input, ppc, parsed, shown, released, snapped, deserialized>>

VARIABLES
    runPc,          \* run_instance: "idle", "download", "add", "save", "update",
                    \*   "exec" (the server is started), "err"
    runId,          \* id: the instance that is run
    runJre          \* settings.java.version of that instance

runVars == <<runPc, runId, runJre>>

VARIABLES
    idValue,        \* value: u64 of a GeneratedIdentifier, as its 64 binary
                    \*   digits, the most significant first
    idText,         \* a string: id.as_str(), or the input of from_str
    idPc,           \* "value", "encoded", "decoded", or "text", "parsed"
    idParsed        \* what idText.parse::<GeneratedIdentifier>() returned

idVars == <<idValue, idText, idPc, idParsed>>

VARIABLES
    specInput,      \* the server specification given on the command line
    specPc,         \* "input", then the parser that was applied: "lib",
                    \*   "install" or "metadata"
    specParsed      \* what the parser returned

specVars == <<specInput, specPc, specParsed>>

vars == <<installVars, runVars, cacheVars, parseVars, idVars, specVars>>

\* the variables that the actions of one part of the model leave alone
outsideInstall == <<runVars, cacheVars, parseVars, idVars, specVars>>

outsideRun == <<cacheVars, parseVars, idVars, specVars>>

outsideCache == <<installVars, runVars, parseVars, idVars, specVars>>

outsideParse == <<installVars, runVars, cacheVars, idVars, specVars>>

outsideId == <<installVars, runVars, cacheVars, parseVars, specVars>>

outsideServer == <<installVars, runVars, cacheVars, parseVars, idVars>>

(***************************************************************************)
(* Values of the cache model.                                              *)
(***************************************************************************)
\* Option<T>
None == [some |-> FALSE, v |-> 0]

Some(x) == [some |-> TRUE, v |-> x]

\* the file at cache_path(uri): missing, not a serialized Cached<T>, or a
\* serialized Cached<T> { inner, expiry }
NoFile == [kind |-> "absent", inner |-> "", expiry |-> 0]

BadFile == [kind |-> "corrupt", inner |-> "", expiry |-> 0]

Cached(inner, expiry) == [kind |-> "entry", inner |-> inner, expiry |-> expiry]

\* ureq::Error, and the error of read_json
NoErr == [kind |-> "", code |-> 0]

Err(kind) == [kind |-> kind, code |-> 0]

StatusCode(code) == [kind |-> "StatusCode", code |-> code]

\* Result<T> of get_cached
NoResult == [kind |-> "none", v |-> "", err |-> NoErr]

Ok(v) == [kind |-> "ok", v |-> v, err |-> NoErr]

Failed(e) == [kind |-> "err", v |-> "", err |-> e]

\* http::Response: status, body, and the Cache-Control and Age headers
\* (Option of the header value, a string of characters)
NoHeader == [some |-> FALSE, v |-> <<>>]

NoResp == [status |-> 0, body |-> "", cc |-> NoHeader, age |-> NoHeader]

NoCall == [wrote |-> FALSE, fetches |-> 0]

\* no get_cached call has been made; the cache file is f
CacheInit(f) ==
    /\ now = 0
    /\ cache = f
    /\ gpc = "idle"
    /\ ttl = None
    /\ cacheAtStart = f
    /\ loads = 0
    /\ saves = 0
    /\ fetches = 0
    /\ requests = 0
    /\ result = NoResult
    /\ resp = NoResp
    /\ lastErr = NoErr
    /\ attempts = 0
    /\ elapsed = 0
    /\ slept = 0
    /\ last = NoCall
    /\ prev = NoCall

(***************************************************************************)
(* Values of the parser model.  A string is a sequence of characters.      *)
(***************************************************************************)
\* a VersionNumber: the variant and the fields of its payload
NoVersion ==
    [variant |-> "", major |-> 0, minor |-> 0, patch |-> 0, pre_release |-> <<>>,
     year |-> 0, week |-> 0, snapshot |-> "", text |-> <<>>]

\* Result<VersionNumber, String>
NoParse == [ok |-> FALSE, val |-> NoVersion]

\* Result<GeneratedIdentifier, IdentifierParseError>
IdOk(v) == [ok |-> TRUE, value |-> v, err |-> "", n |-> 0, c |-> ""]

IdErr(e, n, c) == [ok |-> FALSE, value |-> <<>>, err |-> e, n |-> n, c |-> c]

NoIdResult == IdErr("", 0, "")

\* a version of a ServerSpec: the default one, a VersionId (metadata.rs) or
\* a VersionNumber (lib.rs, command/install.rs)
DefaultVersion == [default |-> TRUE, id |-> <<>>, number |-> NoVersion]

VersionOfId(t) == [default |-> FALSE, id |-> t, number |-> NoVersion]

VersionOfNumber(v) == [default |-> FALSE, id |-> <<>>, number |-> v]

\* Result<ServerSpec, _>; a NamedId is kept by its name
SpecOk(version, name, server_type) ==
    [ok |-> TRUE, version |-> version, name |-> name, server_type |-> server_type]

SpecErr == [ok |-> FALSE, version |-> DefaultVersion, name |-> <<>>, server_type |-> <<>>]

\* no identifier is made or parsed, and no server specification
IdIdle ==
    /\ idValue = <<>>
    /\ idText = <<>>
    /\ idPc = "idle"
    /\ idParsed = NoIdResult
    /\ specInput = <<>>
    /\ specPc = "idle"
    /\ specParsed = SpecErr

\* the string s waits to be parsed
ParseInit(s) ==
    /\ input = s
    /\ ppc = "input"
    /\ parsed = NoParse
    /\ shown = <<>>
    /\ released = NoParse
    /\ snapped = NoParse
    /\ deserialized = NoParse

(***************************************************************************)
(* AppMeta (crate::types::meta): the store of installed runtimes and       *)
(* instances.  Its source is not part of src/; it is modelled from spec.md *)
(* section 3: a record set {major_version -> path} and {version_id -> ...} *)
(* that is written to disk after a mutation and read at process start.     *)
(***************************************************************************)
jre_installed(meta, m) == m \in meta.jres

instance_installed(meta, v) == v \in meta.instances

add_jre(meta, m) == [meta EXCEPT !.jres = @ \cup {m}]

\* add_instance(InstanceMeta::new(version_meta.id, jre_version))
add_instance(meta, v) ==
    [meta EXCEPT !.instances = @ \cup {v}, !.instance_jre[v] = JavaOf(v)]

\* AppMeta::read_or_create(META_PATH)
read_or_create(disk) == disk

(***************************************************************************)
(* The decisions of install_versions and of its tasks.                     *)
(***************************************************************************)
\* mutant of NoServerJar: the early return for a missing server jar is gone
NoServerJarUnchecked(v) == FALSE

\* app.rs:68   if !version_meta.downloads.contains_key("server")
NoServerJar(v) == ~HasServer(v)

\* mutant of AlreadyInstalled: the early return for an installed instance is gone
AlreadyInstalledUnchecked(v) == FALSE

\* app.rs:76   if META.lock().instance_installed(&version_meta.id.to_string())
AlreadyInstalled(v) == instance_installed(metaMem, v)

\* mutant of JreSkipped: the majors queued in this batch are not consulted
JreSkippedStoreOnly(m) == jre_installed(metaMem, m)

\* app.rs:141  META!().jre_installed(&jre_version) || jres_installed.contains(&jre_version)
JreSkipped(m) == jre_installed(metaMem, m) \/ m \in jres_installed

\* app.rs:178  if META!().jre_installed(major_version)
JreTaskSkips(m) == jre_installed(metaMem, m)

SrvTerminal == {"skip_nojar", "skip_installed", "done", "err", "aborted"}
JreTerminal == {"skip", "done", "err", "aborted"}

\* A task that is suspended at an .await (or was not polled yet): dropping
\* the JoinSet cancels it there.  A JRE task past its download runs
\* synchronous code (extract_jre, add_jre, save) and finishes its poll.
SrvAwaiting == {"start", "download", "write", "meta"}
JreAwaiting == {"start", "download"}

MajorOf(i) == JavaOf(batch[i])

Spawned == {<<"srv", i>> : i \in {k \in Slots : srv[k] # "none"}}
             \cup {<<"jre", i>> : i \in {k \in Slots : jre[k] # "none"}}

TaskState(t) == IF t[1] = "srv" THEN srv[t[2]] ELSE jre[t[2]]

Running == {t \in Spawned :
              /\ t[1] = "srv" => srv[t[2]] \notin SrvTerminal
              /\ t[1] = "jre" => jre[t[2]] \notin JreTerminal}

\* tokio::task::JoinSet, Drop: every task still in the set is aborted.  A
\* server task aborted in the middle of its writes leaves what it had
\* written.
AbortSrv(s) == [i \in Slots |-> IF s[i] \in SrvAwaiting THEN "aborted" ELSE s[i]]
AbortJre(j) == [i \in Slots |-> IF j[i] \in JreAwaiting THEN "aborted" ELSE j[i]]

Writing(v) == \E i \in Slots : srv[i] = "write" /\ batch[i] = v

AbortAll ==
    /\ srv' = AbortSrv(srv)
    /\ jre' = AbortJre(jre)
    /\ \E cut \in SUBSET {v \in Versions : Writing(v)} :
          instDir' = [v \in Versions |-> IF v \in cut THEN "partial" ELSE instDir[v]]

(***************************************************************************)
(* Init: a process run on an empty data directory.                         *)
(***************************************************************************)
InstallInit(b) ==
    /\ batch = b
    /\ mainPc = "dispatch"
    /\ idx = 1
    /\ mainResult = "none"
    /\ jres_installed = {}
    /\ srv = [i \in Slots |-> "none"]
    /\ jre = [i \in Slots |-> "none"]
    /\ metaDisk = EmptyMeta
    /\ metaMem = read_or_create(EmptyMeta)
    /\ instDir = [v \in Versions |-> "none"]
    /\ jreDir = [m \in Majors |-> "none"]
    /\ srvDl = [v \in Versions |-> 0]
    /\ jreDl = [m \in Majors |-> 0]
    /\ metaAtStart = EmptyMeta
    /\ jreDirAtStart = [m \in Majors |-> "none"]
    /\ instAtStart = [v \in Versions |-> "none"]
    /\ doneBefore = {}
    /\ failedAt = 0
    /\ runPc = "idle"
    /\ runId = "none"
    /\ runJre = 0

InitInstall ==
    /\ \E b \in Batches : InstallInit(b)
    /\ CacheInit(NoFile)
    /\ ParseInit(<<>>)
    /\ IdIdle

worldVars == <<metaMem, metaDisk, instDir, jreDir>>
histVars == <<metaAtStart, jreDirAtStart, instAtStart, doneBefore>>
countVars == <<srvDl, jreDl>>
mainVars == <<batch, mainPc, idx, mainResult, jres_installed, failedAt>>

(***************************************************************************)
(* install_versions: the dispatch loop (app.rs:55-161).                    *)
(***************************************************************************)
\* One iteration whose get_version_metadata succeeds: the server task is
\* spawned, and the JRE task unless the major version is installed or queued.
Dispatch ==
    /\ mainPc = "dispatch"
    /\ idx <= Len(batch)
    /\ LET m == MajorOf(idx) IN
         /\ srv' = [srv EXCEPT ![idx] = "start"]
         /\ IF JreSkipped(m)
              THEN UNCHANGED <<jres_installed, jre>>
              ELSE /\ jres_installed' = jres_installed \cup {m}
                   /\ jre' = [jre EXCEPT ![idx] = "start"]
    /\ idx' = idx + 1
    /\ mainPc' = IF idx = Len(batch) THEN "join" ELSE "dispatch"
    /\ UNCHANGED <<batch, mainResult, failedAt>>
    /\ UNCHANGED <<worldVars, histVars, countVars>>
    /\ UNCHANGED outsideInstall

\* app.rs:63  get_version_metadata(version).await? fails: install_versions
\* returns the error, which drops the JoinSet.
DispatchFail ==
    /\ mainPc = "dispatch"
    /\ idx <= Len(batch)
    /\ failedAt' = idx
    /\ mainResult' = "err"
    /\ mainPc' = "done"
    /\ AbortAll
    /\ UNCHANGED <<batch, idx, jres_installed>>
    /\ UNCHANGED <<metaMem, metaDisk, jreDir, histVars, countVars>>
    /\ UNCHANGED outsideInstall

(***************************************************************************)
(* install_versions: the join loop (app.rs:163-167).                       *)
(***************************************************************************)
\* join_next() yields the finished tasks in the order they finished.  A task
\* that returned Ok is taken and the loop goes on, which changes nothing the
\* model records; the first task that returned Err makes
\* result?.wrap_err(..)? return from install_versions, which drops the JoinSet.
JoinErr ==
    /\ mainPc = "join"
    /\ \E t \in Spawned : TaskState(t) = "err"
    /\ mainResult' = "err"
    /\ mainPc' = "done"
    /\ AbortAll
    /\ UNCHANGED <<batch, idx, jres_installed, failedAt>>
    /\ UNCHANGED <<metaMem, metaDisk, jreDir, histVars, countVars>>
    /\ UNCHANGED outsideInstall

\* join_next() yields None: the JoinSet is empty, install_versions returns Ok
JoinEnd ==
    /\ mainPc = "join"
    /\ Running = {}
    /\ \A t \in Spawned : TaskState(t) # "err"
    /\ mainResult' = "ok"
    /\ mainPc' = "done"
    /\ UNCHANGED <<batch, idx, jres_installed, failedAt>>
    /\ UNCHANGED <<srv, jre, worldVars, histVars, countVars>>
    /\ UNCHANGED outsideInstall

(***************************************************************************)
(* The server task of one iteration (app.rs:67-138).  Each action is the   *)
(* completion of the awaited operation the task is suspended at, followed  *)
(* by the code up to the next .await.                                      *)
(***************************************************************************)
\* the step of a server task that fails: `?` makes the task return Err
SrvFail(i) == srv' = [srv EXCEPT ![i] = "err"]

\* app.rs:68-88  first poll: the two early returns, then the download starts
SrvStart ==
    \E i \in Slots :
        /\ srv[i] = "start"
        /\ srv' = [srv EXCEPT ![i] =
                     IF NoServerJar(batch[i]) THEN "skip_nojar"
                     ELSE IF AlreadyInstalled(batch[i]) THEN "skip_installed"
                     ELSE "download"]
        /\ UNCHANGED <<mainVars, jre, worldVars, histVars, countVars>>
        /\ UNCHANGED outsideInstall

\* app.rs:89-96  REQWEST_CLIENT.get(url).send().await?.bytes().await?
SrvDownload ==
    \E i \in Slots :
        /\ srv[i] = "download"
        /\ \/ /\ srv' = [srv EXCEPT ![i] = "write"]
              /\ srvDl' = [srvDl EXCEPT ![batch[i]] = @ + 1]
           \/ /\ SrvFail(i)
              /\ UNCHANGED srvDl
        /\ UNCHANGED <<mainVars, jre, worldVars, histVars, jreDl>>
        /\ UNCHANGED outsideInstall

\* app.rs:100-124  create_dir_all, the writes of server.jar and eula.txt and
\* settings.save, each awaited with `?`.  No task reads the instance
\* directory, so the four writes are one step: all of them succeed, or one
\* fails and leaves the directory as it was or partly written.
SrvWrite ==
    \E i \in Slots :
        /\ srv[i] = "write"
        /\ \/ /\ srv' = [srv EXCEPT ![i] = "meta"]
              /\ instDir' = [instDir EXCEPT ![batch[i]] = "complete"]
           \/ /\ SrvFail(i)
              /\ \/ UNCHANGED instDir
                 \/ instDir' = [instDir EXCEPT ![batch[i]] = "partial"]
        /\ UNCHANGED <<mainVars, jre, metaMem, metaDisk, jreDir, histVars, countVars>>
        /\ UNCHANGED outsideInstall

\* app.rs:132-137  lock, add_instance, save, unlock
SrvMeta ==
    \E i \in Slots :
        /\ srv[i] = "meta"
        /\ metaMem' = add_instance(metaMem, batch[i])
        /\ \/ /\ metaDisk' = metaMem'
              /\ srv' = [srv EXCEPT ![i] = "done"]
           \/ /\ SrvFail(i)
              /\ UNCHANGED metaDisk
        /\ UNCHANGED <<mainVars, jre, instDir, jreDir, histVars, countVars>>
        /\ UNCHANGED outsideInstall

(***************************************************************************)
(* The JRE task of one iteration: install_jre (app.rs:153-160, 175-197).   *)
(***************************************************************************)
\* mutant of JreFail: the error is dropped and the task goes on
JreFailIgnored(i) == jre' = [jre EXCEPT ![i] = "add"]

\* the step of a runtime task that fails: `?` makes install_jre return Err
JreFail(i) == jre' = [jre EXCEPT ![i] = "err"]

\* app.rs:178-184  the check of the store, then download_jre is started
JreStart ==
    \E i \in Slots :
        /\ jre[i] = "start"
        /\ jre' = [jre EXCEPT ![i] =
                     IF JreTaskSkips(MajorOf(i)) THEN "skip" ELSE "download"]
        /\ UNCHANGED <<mainVars, srv, worldVars, histVars, countVars>>
        /\ UNCHANGED outsideInstall

\* app.rs:184-188  download_jre(major_version).await?, then extract_jre
\* (app.rs:403-445), which runs without an .await: it unpacks every entry and
\* checks that bin/java exists.  No other task reads the runtime directory.
JreDownload ==
    \E i \in Slots :
        /\ jre[i] = "download"
        /\ \/ /\ jre' = [jre EXCEPT ![i] = "add"]
              /\ jreDl' = [jreDl EXCEPT ![MajorOf(i)] = @ + 1]
              /\ jreDir' = [jreDir EXCEPT ![MajorOf(i)] = "ok"]
           \/ /\ JreFail(i)
              /\ \/ UNCHANGED <<jreDl, jreDir>>
                 \/ /\ jreDl' = [jreDl EXCEPT ![MajorOf(i)] = @ + 1]
                    /\ jreDir' = [jreDir EXCEPT ![MajorOf(i)] = "partial"]
        /\ UNCHANGED <<mainVars, srv, metaMem, metaDisk, instDir, histVars, srvDl>>
        /\ UNCHANGED outsideInstall

\* app.rs:191  META!().add_jre(*major_version);   (lock, mutate, unlock)
JreAdd ==
    \E i \in Slots :
        /\ jre[i] = "add"
        /\ metaMem' = add_jre(metaMem, MajorOf(i))
        /\ jre' = [jre EXCEPT ![i] = "save"]
        /\ UNCHANGED <<mainVars, srv, metaDisk, instDir, jreDir, histVars, countVars>>
        /\ UNCHANGED outsideInstall

\* app.rs:192  META!().save(META_PATH.as_path())?;   (lock, write, unlock)
JreSave ==
    \E i \in Slots :
        /\ jre[i] = "save"
        /\ \/ /\ metaDisk' = metaMem
              /\ jre' = [jre EXCEPT ![i] = "done"]
           \/ /\ JreFail(i)
              /\ UNCHANGED metaDisk
        /\ UNCHANGED <<mainVars, srv, metaMem, instDir, jreDir, histVars, countVars>>
        /\ UNCHANGED outsideInstall

(***************************************************************************)
(* The process ends and the tool is started again with another list: META  *)
(* is read from disk again.  The model follows the runs that come after a  *)
(* run that returned Ok; a run that returned an error ends the behaviour.  *)
(***************************************************************************)
Quiescent == mainPc = "done" /\ Running = {}

NewRun ==
    /\ Quiescent
    /\ runPc = "idle"
    /\ mainResult = "ok"
    /\ batch' \in Batches
    /\ mainPc' = "dispatch"
    /\ idx' = 1
    /\ mainResult' = "none"
    /\ jres_installed' = {}
    /\ failedAt' = 0
    /\ srv' = [i \in Slots |-> "none"]
    /\ jre' = [i \in Slots |-> "none"]
    /\ metaMem' = read_or_create(metaDisk)
    /\ srvDl' = [v \in Versions |-> 0]
    /\ jreDl' = [m \in Majors |-> 0]
    /\ metaAtStart' = metaMem'
    /\ jreDirAtStart' = jreDir
    /\ instAtStart' = instDir
    /\ doneBefore' = doneBefore \cup {batch[i] : i \in {k \in Slots : srv[k] = "done"}}
    /\ UNCHANGED <<metaDisk, instDir, jreDir>>
    /\ UNCHANGED outsideInstall

(***************************************************************************)
(* run_instance (app.rs:199-309): the tool is started to run an installed  *)
(* instance.  META is read from disk; no install task runs in this process.*)
(* settings.java.version is read from the settings document of the         *)
(* instance, which the user may have edited since the install.             *)
(***************************************************************************)
installLocals == <<mainVars, srv, jre, histVars, countVars>>

\* app.rs:199-218  the two checks of the store; install_jre's own check
\* (app.rs:178) repeats the second one
RunStart ==
    /\ Quiescent
    /\ runPc = "idle"
    /\ \E id \in Versions, m \in Majors :
          /\ runId' = id
          /\ runJre' = m
          /\ metaMem' = read_or_create(metaDisk)
          /\ runPc' = IF ~instance_installed(metaMem', id) THEN "err"
                      ELSE IF ~jre_installed(metaMem', m) THEN "download"
                      ELSE "exec"
    /\ UNCHANGED <<installLocals, metaDisk, instDir, jreDir>>
    /\ UNCHANGED outsideRun

\* app.rs:184-188  install_jre: download_jre(..).await?, extract_jre(..)?
RunDownload ==
    /\ runPc = "download"
    /\ \/ /\ runPc' = "add"
          /\ jreDir' = [jreDir EXCEPT ![runJre] = "ok"]
       \/ /\ runPc' = "err"
          /\ \/ UNCHANGED jreDir
             \/ jreDir' = [jreDir EXCEPT ![runJre] = "partial"]
    /\ UNCHANGED <<installLocals, metaMem, metaDisk, instDir, runId, runJre>>
    /\ UNCHANGED outsideRun

\* app.rs:191  install_jre: META!().add_jre(*major_version);
RunAdd ==
    /\ runPc = "add"
    /\ metaMem' = add_jre(metaMem, runJre)
    /\ runPc' = "save"
    /\ UNCHANGED <<installLocals, metaDisk, instDir, jreDir, runId, runJre>>
    /\ UNCHANGED outsideRun

\* app.rs:192  install_jre: META!().save(META_PATH.as_path())?;
RunSave ==
    /\ runPc = "save"
    /\ \/ /\ metaDisk' = metaMem
          /\ runPc' = "update"
       \/ /\ runPc' = "err"
          /\ UNCHANGED metaDisk
    /\ UNCHANGED <<installLocals, metaMem, instDir, jreDir, runId, runJre>>
    /\ UNCHANGED outsideRun

\* app.rs:220-225  META!().instances.get_mut(&id.to_string())?.jre = jre_version;
\* then the server is started (app.rs:227-308)
RunUpdate ==
    /\ runPc = "update"
    /\ metaMem' = [metaMem EXCEPT !.instance_jre[runId] = runJre]
    /\ runPc' = "exec"
    /\ UNCHANGED <<installLocals, metaDisk, instDir, jreDir, runId, runJre>>
    /\ UNCHANGED outsideRun

\* run_instance returns and the process ends
RunExit ==
    /\ runPc \in {"exec", "err"}
    /\ runPc' = "idle"
    /\ runId' = "none"
    /\ runJre' = 0
    /\ UNCHANGED installVars
    /\ UNCHANGED outsideRun

NextInstall ==
    \/ Dispatch \/ DispatchFail
    \/ JoinErr \/ JoinEnd
    \/ SrvStart \/ SrvDownload \/ SrvWrite \/ SrvMeta
    \/ JreStart \/ JreDownload \/ JreAdd \/ JreSave
    \/ NewRun
    \/ RunStart \/ RunDownload \/ RunAdd \/ RunSave \/ RunUpdate \/ RunExit

SpecInstall == InitInstall /\ [][NextInstall]_vars

(***************************************************************************)
(* Claims about install_versions.                                          *)
(***************************************************************************)
Requested == 1..Len(batch)

\* the iterations of the dispatch loop that got their version metadata
Dispatched == 1..(idx - 1)

JreTasksOf(m) == {i \in Slots : jre[i] # "none" /\ MajorOf(i) = m}

SrvOk == {"skip_nojar", "skip_installed", "done"}

\* C1: in every batch at most one runtime-install task is spawned per major
\* version: none when the store records the major at the start of the run,
\* exactly one once the dispatch loop has met a version that needs a major the
\* store does not record; the archive of a major is downloaded and extracted
\* at most once, and when install_versions returns Ok it was downloaded and
\* extracted exactly once, is recorded, and the server tasks of all versions
\* that share it have succeeded.
C1_OneRuntimeTaskPerMajor ==
    \A m \in Majors :
        LET needed == \E i \in Dispatched : MajorOf(i) = m
            recorded == jre_installed(metaAtStart, m)
        IN  /\ Cardinality(JreTasksOf(m)) <= 1
            /\ recorded => JreTasksOf(m) = {}
            /\ (needed /\ ~recorded) => Cardinality(JreTasksOf(m)) = 1
            /\ jreDl[m] <= 1
            /\ (mainResult = "ok" /\ needed) =>
                  /\ jreDl[m] = IF recorded THEN 0 ELSE 1
                  /\ jreDir[m] = "ok"
                  /\ jre_installed(metaDisk, m)
                  /\ \A i \in Requested : MajorOf(i) = m => srv[i] \in SrvOk

\* two versions that share major 17 were installed by one batch
C1_Witness ==
    /\ Len(batch) = 2
    /\ batch[1] # batch[2]
    /\ MajorOf(1) = 17 /\ MajorOf(2) = 17
    /\ mainResult = "ok"
    /\ srv[1] = "done" /\ srv[2] = "done"
    /\ jreDl[17] = 1

\* C2: when a task of the batch has returned an error and install_versions
\* reports it, every spawned task has reached its own success or error
\* outcome: none was cancelled, none is still running.
C2_ErrorReportedAfterAllTasksFinish ==
    (mainResult = "err" /\ failedAt = 0) =>
        \A t \in Spawned : TaskState(t) \in (SrvOk \cup {"skip", "err"})

\* a version whose own install failed: its metadata fetch or its server task
InstallFailed(v) ==
    \E i \in Requested : batch[i] = v /\ (failedAt = i \/ srv[i] = "err")

\* C3: when the install of one requested version has failed and the run is
\* over, every other requested version that has a server download is written
\* to disk and recorded in the metadata store.
C3_OtherVersionsStillInstalled ==
    ( /\ Quiescent
      /\ mainResult = "err"
      /\ \E v \in Versions : InstallFailed(v)
      /\ \A i \in Slots : jre[i] # "err" ) =>
        \A i \in Requested :
            (HasServer(batch[i]) /\ ~InstallFailed(batch[i])) =>
                /\ instDir[batch[i]] = "complete"
                /\ instance_installed(metaDisk, batch[i])

\* C4: a server task for a version whose install succeeded in an earlier run
\* downloads nothing, writes nothing, leaves the store's record of the
\* version as it was, and ends as "already installed", never as an error.
C4_ReinstallIsNoOp ==
    \A i \in Slots :
        (srv[i] # "none" /\ batch[i] \in doneBefore) =>
            /\ srv[i] \in {"start", "skip_installed", "aborted"}
            /\ srvDl[batch[i]] = 0
            /\ instDir[batch[i]] = instAtStart[batch[i]]
            /\ instance_installed(metaAtStart, batch[i])
            /\ instance_installed(metaMem, batch[i])
            /\ instance_installed(metaDisk, batch[i])

\* a later run asked for an installed version again and its task skipped
C4_Witness ==
    \E i \in Slots :
        /\ srv[i] = "skip_installed"
        /\ batch[i] \in doneBefore
        /\ mainResult = "ok"

\* C5 as claimed: a run that asks only for versions without a server download
\* ends every server task as skipped, creates no directory and leaves the
\* metadata store unchanged.
C5_NoServerJarChangesNothing ==
    (\A i \in Requested : ~HasServer(batch[i])) =>
        /\ \A i \in Requested : srv[i] \in {"none", "start", "skip_nojar", "aborted"}
        /\ instDir = instAtStart
        /\ jreDir = jreDirAtStart
        /\ metaMem = metaAtStart
        /\ metaDisk = metaAtStart

\* C5 amended: the server task of a version without a server download ends
\* as skipped (a success), downloads no server jar, creates no instance
\* directory and records no instance; a run that asks only for such versions
\* leaves every instance directory and every instance record as it was.  The
\* runtime-install task of the version's major version is spawned all the
\* same when the store does not record that major.
C5_NoServerJarLeavesInstancesUntouched ==
    /\ \A i \in Dispatched :
          ~HasServer(batch[i]) =>
              /\ srv[i] \in {"start", "skip_nojar", "aborted"}
              /\ srvDl[batch[i]] = 0
              /\ instDir[batch[i]] = instAtStart[batch[i]]
              /\ ~instance_installed(metaMem, batch[i])
              /\ ~instance_installed(metaDisk, batch[i])
              /\ ~jre_installed(metaAtStart, MajorOf(i)) => JreTasksOf(MajorOf(i)) # {}
    /\ (\A i \in Requested : ~HasServer(batch[i])) =>
          /\ instDir = instAtStart
          /\ metaMem.instances = metaAtStart.instances
          /\ metaDisk.instances = metaAtStart.instances

\* a version without a server download was skipped and its runtime installed
C5_Witness ==
    \E i \in Slots :
        /\ srv[i] = "skip_nojar"
        /\ jre[i] = "done"
        /\ jreDir[MajorOf(i)] = "ok"
        /\ jreDirAtStart[MajorOf(i)] = "none"
        /\ jre_installed(metaDisk, MajorOf(i))

(***************************************************************************)
(* The response cache and the retrying fetch (src/src/net.rs).             *)
(*                                                                         *)
(* One uri is followed, so cache_path(uri) is one file.  Time is counted   *)
(* in seconds for SystemTime and in milliseconds for the Instant of        *)
(* fetch_json; a get_cached call takes less than the clock's resolution.   *)
(***************************************************************************)
\* latest instant of the clock
MaxNow == 40

\* what the clock advances by between two calls
TickSteps == {10, 30}

\* const DEFAULT_TTL: Duration = Duration::from_secs(600)
DEFAULT_TTL == 600

\* fetch_json: max_duration = Duration::from_millis(500)
max_duration == 500

\* fetch_json: the factor of the backoff, 25 * 2_u64.pow(attempts) ms
backoff_base == 25

\* AGENT: timeout_global(Some(Duration::from_secs(3))), in milliseconds
timeout_global == 3000

\* how long a request that fails before the timeout takes, in milliseconds
FailMs == {0, 150, 300}

\* the ttl arguments of the callers
Ttls == {None, Some(0), Some(30)}

\* bodies the server sends: two JSON documents of type T, and one that is not
JsonBodies == {"v1", "v2"}

Bodies == JsonBodies \cup {"<html>"}

(***************************************************************************)
(* Header values, as strings of characters.                                *)
(***************************************************************************)
S_max_age == <<"m", "a", "x", "-", "a", "g", "e", "=">>

\* "public, max-age=120"
CC_public_120 == <<"p", "u", "b", "l", "i", "c", ",", " ">> \o S_max_age \o <<"1", "2", "0">>

\* "max-age=10"
CC_10 == S_max_age \o <<"1", "0">>

\* "max-age=1x,max-age=120"
CC_bad_then_120 == S_max_age \o <<"1", "x", ",">> \o S_max_age \o <<"1", "2", "0">>

CacheControls == {NoHeader, Some(CC_public_120), Some(CC_10), Some(CC_bad_then_120)}

\* "20" and "x"
Ages == {NoHeader, Some(<<"2", "0">>), Some(<<"x">>)}

Responses ==
    [status : {200}, body : Bodies, cc : CacheControls, age : Ages]
    \cup [status : {404, 503}, body : {"<html>"}, cc : {NoHeader}, age : {NoHeader}]

\* failures of AGENT.get(path).call() that are no response
TransportErrors == {Err("Timeout"), Err("ConnectionFailed"), Err("HostNotFound"), Err("Io")}

(***************************************************************************)
(* str and Option methods.                                                 *)
(***************************************************************************)
Digits == <<"0", "1", "2", "3", "4", "5", "6", "7", "8", "9">>

IsDigit(c) == \E d \in 1..10 : Digits[d] = c

DigitValue(c) == (CHOOSE d \in 1..10 : Digits[d] = c) - 1

RECURSIVE DecimalValue(_)
DecimalValue(s) ==
    IF s = <<>> THEN 0
    ELSE 10 * DecimalValue(SubSeq(s, 1, Len(s) - 1)) + DigitValue(s[Len(s)])

\* str::parse::<u64>(): an optional "+", then one or more decimal digits
parse_u64(s) ==
    LET d == IF s # <<>> /\ s[1] = "+" THEN Tail(s) ELSE s
    IN  IF d # <<>> /\ \A k \in 1..Len(d) : IsDigit(d[k])
        THEN Some(DecimalValue(d))
        ELSE None

\* str::split(c): the pieces between the occurrences of c
RECURSIVE split(_, _)
split(s, c) ==
    IF \A k \in 1..Len(s) : s[k] # c THEN <<s>>
    ELSE LET k == CHOOSE k \in 1..Len(s) : s[k] = c /\ \A j \in 1..(k - 1) : s[j] # c
         IN  <<SubSeq(s, 1, k - 1)>> \o split(SubSeq(s, k + 1, Len(s)), c)

\* str::trim()
RECURSIVE trim(_)
trim(s) ==
    IF s = <<>> THEN s
    ELSE IF s[1] = " " THEN trim(Tail(s))
    ELSE IF s[Len(s)] = " " THEN trim(SubSeq(s, 1, Len(s) - 1))
    ELSE s

starts_with(s, p) == Len(s) >= Len(p) /\ SubSeq(s, 1, Len(p)) = p

strip_prefix(s, p) ==
    IF starts_with(s, p) THEN Some(SubSeq(s, Len(p) + 1, Len(s))) ELSE NoHeader

\* Iterator::find over the directives: the first one that starts with "max-age="
find_max_age(ds) ==
    LET hits == {k \in 1..Len(ds) : starts_with(trim(ds[k]), S_max_age)}
    IN  IF hits = {} THEN NoHeader
        ELSE Some(ds[CHOOSE k \in hits : \A j \in hits : k <= j])

\* Option::or
or(a, b) == IF a.some THEN a ELSE b

\* Option::unwrap_or
unwrap_or(a, d) == IF a.some THEN a.v ELSE d

\* Duration::saturating_sub
saturating_sub(a, b) == IF a > b THEN a - b ELSE 0

\* Duration::min
min(a, b) == IF a < b THEN a ELSE b

\* Option::filter(|h| !h.is_empty())
non_empty(h) == IF h.some /\ h.v # <<>> THEN h ELSE NoHeader

(***************************************************************************)
(* Cached<T> (net.rs:150-198).                                             *)
(***************************************************************************)
\* mutant of is_expired: every entry is expired
is_expired_always(c) == TRUE

\* Cached::is_expired: SystemTime::now() > self.expiry
is_expired(c) == now > c.expiry

\* mutant of new: the entry expires when it is made
new_expiring_now(inner, t) == Cached(inner, now)

\* Cached::new(inner, ttl): expiry = SystemTime::now() + ttl
new(inner, t) == Cached(inner, now + t)

\* mutant of load: whatever the file holds is taken for an entry
load_unvalidated(f) ==
    IF f.kind = "absent" THEN [ok |-> FALSE, v |-> f]
    ELSE IF f.kind = "corrupt" THEN [ok |-> TRUE, v |-> Cached("", DEFAULT_TTL)]
    ELSE [ok |-> TRUE, v |-> f]

\* Cached::load: std::fs::read(path)?, then serde_json::from_slice(&data)?
load(f) == [ok |-> f.kind = "entry", v |-> f]

\* Cached::into_inner
into_inner(c) == c.inner

(***************************************************************************)
(* fetch_json (net.rs:50-84).                                              *)
(***************************************************************************)
\* what one request meets: a transport failure, or a response
Outcomes ==
    {[err |-> e, resp |-> NoResp] : e \in TransportErrors}
    \cup {[err |-> NoErr, resp |-> r] : r \in Responses}

\* AGENT.get(path).call(): AGENT is built without http_status_as_error(false),
\* so a response whose status is 4xx or 5xx is Err(ureq::Error::StatusCode)
call(o) ==
    IF o.err # NoErr THEN [ok |-> FALSE, err |-> o.err, resp |-> NoResp]
    ELSE IF o.resp.status >= 400
         THEN [ok |-> FALSE, err |-> StatusCode(o.resp.status), resp |-> NoResp]
         ELSE [ok |-> TRUE, err |-> NoErr, resp |-> o.resp]

\* response.body_mut().read_json::<T>() succeeds
read_json(body) == body \in JsonBodies

\* mutant of Retryable: every failure of a request is retried
RetryableAnyFailure(e) == TRUE

\* the match arm of net.rs:62-64
Retryable(e) == e.kind \in {"Timeout", "ConnectionFailed", "HostNotFound"}

\* how long a failed request took: a Timeout is raised when timeout_global
\* has passed
TookMs(e, d) == IF e.kind = "Timeout" THEN timeout_global ELSE d

\* mutant of sleep_time: the backoff, whatever time remains
sleep_time_backoff_only(n, el) == backoff_base * 2^n

\* net.rs:75-77  backoff.min(remaining)
sleep_time(n, el) == min(backoff_base * 2^n, saturating_sub(max_duration, el))

(***************************************************************************)
(* get_cached (net.rs:90-148).                                             *)
(***************************************************************************)
\* mutant of Bypass: a zero ttl is treated like any other
BypassNever(t) == FALSE

\* net.rs:95  ttl.is_some_and(|ttl| ttl.is_zero())
Bypass(t) == t.some /\ t.v = 0

\* net.rs:113-121
server_ttl(r) ==
    LET h == non_empty(r.cc)
        d == IF h.some THEN find_max_age(split(h.v, ",")) ELSE NoHeader
        v == IF d.some THEN strip_prefix(trim(d.v), S_max_age) ELSE NoHeader
    IN  IF v.some THEN parse_u64(v.v) ELSE None

\* net.rs:123-130
age(r) ==
    LET h == non_empty(r.age)
    IN  unwrap_or(IF h.some THEN parse_u64(h.v) ELSE None, 0)

\* mutant of adjusted_ttl: the caller's ttl goes before the server's
adjusted_ttl_caller_first(server, caller, a) ==
    saturating_sub(unwrap_or(or(caller, server), DEFAULT_TTL), a)

\* net.rs:133-136  server > provided > default, less the age
adjusted_ttl(server, caller, a) ==
    saturating_sub(unwrap_or(or(server, caller), DEFAULT_TTL), a)

\* mutant of is_zero: no ttl counts as zero
is_zero_never(d) == FALSE

\* net.rs:138  Duration::is_zero
is_zero(d) == d = 0

\* the call returns res; wrote: it saved an entry; n: its fetch_json calls
Return(res, wrote, n) ==
    /\ gpc' = "returned"
    /\ result' = res
    /\ last' = [wrote |-> wrote, fetches |-> n]
    /\ elapsed' = 0
    /\ slept' = 0

fetchVars == <<now, ttl, cacheAtStart, loads, fetches, prev>>

\* get_cached is called: the bypass, or the check of the cache, up to the
\* return of a hit or the call of fetch_json
GetCached ==
    \E t \in Ttls :
        /\ gpc \in {"idle", "returned"}
        /\ ttl' = t
        /\ cacheAtStart' = cache
        /\ prev' = last
        /\ saves' = 0
        /\ requests' = 0
        /\ resp' = NoResp
        /\ lastErr' = NoErr
        /\ attempts' = 0
        /\ IF Bypass(t)
             THEN /\ loads' = 0
                  /\ fetches' = 1
                  /\ gpc' = "bypass"
                  /\ result' = NoResult
                  /\ last' = last
                  /\ elapsed' = 0
                  /\ slept' = 0
             ELSE /\ loads' = 1
                  /\ LET l == load(cache) IN
                       IF l.ok /\ ~is_expired(l.v)
                         THEN /\ fetches' = 0
                              /\ Return(Ok(into_inner(l.v)), FALSE, 0)
                         ELSE /\ fetches' = 1
                              /\ gpc' = "fetch"
                              /\ result' = NoResult
                              /\ last' = last
                              /\ elapsed' = 0
                              /\ slept' = 0
        /\ UNCHANGED <<now, cache>>
        /\ UNCHANGED outsideCache

\* net.rs:58-60 and 96-97: the request of the bypass is answered, the body is
\* JSON of type T
BypassOk ==
    \E o \in Outcomes :
        /\ gpc = "bypass"
        /\ call(o).ok
        /\ read_json(o.resp.body)
        /\ requests' = requests + 1
        /\ resp' = o.resp
        /\ lastErr' = NoErr
        /\ Return(Ok(o.resp.body), FALSE, fetches)
        /\ UNCHANGED <<fetchVars, cache, saves, attempts>>
        /\ UNCHANGED outsideCache

\* net.rs:58-60 and 110-147: the request is answered, the body is JSON of
\* type T; the ttl is worked out and the entry is saved unless the ttl is zero.
\* save (net.rs:168-182) fails before File::create, which leaves the file as
\* it was, or in write_all, which leaves it cut short.
FetchOk ==
    \E o \in Outcomes :
        /\ gpc = "fetch"
        /\ call(o).ok
        /\ read_json(o.resp.body)
        /\ requests' = requests + 1
        /\ resp' = o.resp
        /\ LET a == adjusted_ttl(server_ttl(o.resp), ttl, age(o.resp)) IN
             IF is_zero(a)
               THEN /\ Return(Ok(o.resp.body), FALSE, fetches)
                    /\ lastErr' = NoErr
                    /\ UNCHANGED <<cache, saves>>
               ELSE /\ saves' = 1
                    /\ \/ /\ cache' = new(o.resp.body, a)
                          /\ Return(Ok(o.resp.body), TRUE, fetches)
                          /\ lastErr' = NoErr
                       \/ /\ cache' \in {cache, BadFile}
                          /\ lastErr' = Err("Save")
                          /\ Return(Failed(Err("Save")), FALSE, fetches)
        /\ UNCHANGED <<fetchVars, attempts>>
        /\ UNCHANGED outsideCache

\* net.rs:59  the request is answered, read_json fails: `?` returns the error
FetchNotJson ==
    \E o \in Outcomes :
        /\ gpc \in {"bypass", "fetch"}
        /\ call(o).ok
        /\ ~read_json(o.resp.body)
        /\ requests' = requests + 1
        /\ lastErr' = Err("Json")
        /\ Return(Failed(Err("Json")), FALSE, fetches)
        /\ UNCHANGED <<fetchVars, cache, saves, resp, attempts>>
        /\ UNCHANGED outsideCache

\* net.rs:62-79  a failure of the retried kinds within max_duration: sleep,
\* then the loop makes the next request
FetchRetry ==
    \E o \in Outcomes, d \in FailMs :
        LET r == call(o)
            el == elapsed + TookMs(r.err, d)
        IN  /\ gpc \in {"bypass", "fetch"}
            /\ ~r.ok
            /\ Retryable(r.err)
            /\ ~(el >= max_duration)
            /\ requests' = requests + 1
            /\ lastErr' = r.err
            /\ attempts' = attempts + 1
            /\ elapsed' = el + sleep_time(attempts', el)
            /\ slept' = slept + sleep_time(attempts', el)
            /\ UNCHANGED <<fetchVars, cache, gpc, saves, resp, result, last>>
            /\ UNCHANGED outsideCache

\* net.rs:62-73  a failure of the retried kinds when max_duration has passed
FetchGiveUp ==
    \E o \in Outcomes, d \in FailMs :
        LET r == call(o)
            el == elapsed + TookMs(r.err, d)
        IN  /\ gpc \in {"bypass", "fetch"}
            /\ ~r.ok
            /\ Retryable(r.err)
            /\ el >= max_duration
            /\ requests' = requests + 1
            /\ lastErr' = r.err
            /\ attempts' = attempts + 1
            /\ Return(Failed(Err("MaxRetry")), FALSE, fetches)
            /\ UNCHANGED <<fetchVars, cache, saves, resp>>
            /\ UNCHANGED outsideCache

\* net.rs:81  any other failure is returned
FetchFail ==
    \E o \in Outcomes :
        LET r == call(o)
        IN  /\ gpc \in {"bypass", "fetch"}
            /\ ~r.ok
            /\ ~Retryable(r.err)
            /\ requests' = requests + 1
            /\ lastErr' = r.err
            /\ Return(Failed(r.err), FALSE, fetches)
            /\ UNCHANGED <<fetchVars, cache, saves, resp, attempts>>
            /\ UNCHANGED outsideCache

\* time passes between two calls
Tick ==
    \E d \in TickSteps :
        /\ gpc \in {"idle", "returned"}
        /\ now + d <= MaxNow
        /\ now' = now + d
        /\ gpc' = "idle"
        /\ ttl' = None
        /\ cacheAtStart' = cache
        /\ loads' = 0
        /\ saves' = 0
        /\ fetches' = 0
        /\ requests' = 0
        /\ result' = NoResult
        /\ resp' = NoResp
        /\ lastErr' = NoErr
        /\ attempts' = 0
        /\ elapsed' = 0
        /\ slept' = 0
        /\ prev' = NoCall
        /\ UNCHANGED <<cache, last>>
        /\ UNCHANGED outsideCache

InitCache ==
    /\ InstallInit(<<"1.20.1">>)
    /\ \E f \in {NoFile, BadFile} : CacheInit(f)
    /\ ParseInit(<<>>)
    /\ IdIdle

NextCache ==
    \/ GetCached
    \/ BypassOk \/ FetchOk \/ FetchNotJson
    \/ FetchRetry \/ FetchGiveUp \/ FetchFail
    \/ Tick

SpecCache == InitCache /\ [][NextCache]_vars

\* a step of fetch_json: a request returns and the code runs up to the next
\* request or to the return.  Every request ends, with a response or with a
\* failure, since AGENT has a timeout_global, and the sleep ends.
FetchStep ==
    BypassOk \/ FetchOk \/ FetchNotJson \/ FetchRetry \/ FetchGiveUp \/ FetchFail

\* SpecCache with a fetch_json that keeps running once it was called
SpecCacheFair == SpecCache /\ WF_vars(FetchStep)

(***************************************************************************)
(* Claims about get_cached and fetch_json.                                 *)
(***************************************************************************)
ZeroTtl == ttl.some /\ ttl.v = 0

\* the call that just returned began with an entry that the call before it
\* had written and that had not expired
SecondCallWithinTtl ==
    /\ gpc = "returned"
    /\ prev.wrote
    /\ cacheAtStart.kind = "entry"
    /\ ~(now > cacheAtStart.expiry)

HeaderOfMaxAge(n) == IF n = 120 THEN Some(CC_public_120) ELSE Some(CC_10)

HeaderOfAge(a) == IF a = 0 THEN NoHeader ELSE Some(<<"2", "0">>)

C8_ZeroTtlBypassesCache ==
    ZeroTtl =>
        /\ loads = 0
        /\ saves = 0
        /\ fetches = 1
        /\ cache = cacheAtStart
        /\ gpc \in {"bypass", "returned"}
        /\ gpc = "returned" =>
             /\ requests >= 1
             /\ result.kind = "ok" => (resp.status = 200 /\ result.v = resp.body)
             /\ result.kind = "err" => (lastErr # NoErr /\ resp = NoResp)

\* a bypass call returned a fetched value that differs from the valid entry
\* in the cache
C8_Witness ==
    /\ ZeroTtl
    /\ gpc = "returned"
    /\ result.kind = "ok"
    /\ cacheAtStart.kind = "entry"
    /\ ~(now > cacheAtStart.expiry)
    /\ result.v # cacheAtStart.inner
    /\ cache = cacheAtStart

\* C9: a caching call that finds the cache file missing or undecodable makes
\* the fetch; what it returns is what the fetch and the save of the new entry
\* gave, never an error of the load.
C9_CorruptEntryIsAMiss ==
    (gpc = "returned" /\ ~ZeroTtl /\ cacheAtStart.kind \in {"absent", "corrupt"}) =>
        /\ loads = 1
        /\ fetches = 1
        /\ requests >= 1
        /\ result.kind = "ok" => (resp.status = 200 /\ result.v = resp.body)
        /\ result.kind = "err" => lastErr # NoErr

\* a call that found an undecodable file fetched and replaced it
C9_Witness ==
    /\ gpc = "returned"
    /\ ~ZeroTtl
    /\ cacheAtStart = BadFile
    /\ result.kind = "ok"
    /\ cache.kind = "entry"
    /\ cache.inner = result.v

\* the failures the claim calls transient
ClaimedTransient(e) ==
    \/ e.kind \in {"ConnectionFailed", "HostNotFound"}
    \/ e.kind = "StatusCode" /\ e.code >= 500 /\ e.code <= 599

\* C10 as claimed: after a failed request fetch_json makes another request
\* if and only if the failure was a connection failure, a host resolution
\* failure or a 5xx status.
C10_RetriesExactlyTransientFailures ==
    (lastErr # NoErr /\ lastErr.kind # "Save") =>
        (gpc \in {"bypass", "fetch"} <=> ClaimedTransient(lastErr))

\* the latest request was answered with a 4xx status, or with a body that is
\* not JSON of the requested type
ClientErrorOrBadJson ==
    \/ lastErr.kind = "StatusCode" /\ lastErr.code >= 400 /\ lastErr.code <= 499
    \/ lastErr.kind = "Json"

\* C11: a request answered with a 4xx status or with a body that is not JSON
\* of the requested type is the last request of the fetch: the call has
\* returned that error, the request was not counted as a retried attempt (no
\* sleep followed it), it is the only request when none failed before it,
\* and the cache file is as it was when the call started.
C11_ClientErrorAndBadJsonAreTerminal ==
    ClientErrorOrBadJson =>
        /\ gpc = "returned"
        /\ result.kind = "err"
        /\ result.err.kind = lastErr.kind
        /\ requests = attempts + 1
        /\ attempts = 0 => requests = 1
        /\ saves = 0
        /\ cache = cacheAtStart

\* a caching call that found an expired entry got a 404 on its one request
C11_Witness ==
    /\ lastErr = StatusCode(404)
    /\ gpc = "returned"
    /\ requests = 1
    /\ ~ZeroTtl
    /\ cacheAtStart.kind = "entry"
    /\ cache = cacheAtStart

(***************************************************************************)
(* The version number parsers (src/src/minecraft.rs), written with winnow. *)
(* A parser takes the input and returns whether it matched, what it made   *)
(* and the rest of the input; a parser that fails leaves the input as it   *)
(* was.  No parser here raises a cut error, so alt and opt always go on.   *)
(***************************************************************************)
\* AsChar::is_dec_digit
DecDigits == {"0", "1", "2", "3", "4", "5", "6", "7", "8", "9"}

LowerCase ==
    {"a", "b", "c", "d", "e", "f", "g", "h", "i", "j", "k", "l", "m"} \cup
    {"n", "o", "p", "q", "r", "s", "t", "u", "v", "w", "x", "y", "z"}

UpperCase ==
    {"A", "B", "C", "D", "E", "F", "G", "H", "I", "J", "K", "L", "M"} \cup
    {"N", "O", "P", "Q", "R", "S", "T", "U", "V", "W", "X", "Y", "Z"}

\* AsChar::is_alphanum
AlphaNum == LowerCase \cup UpperCase \cup DecDigits

\* the set of minecraft.rs:162  (AsChar::is_alphanum, '.', '-', '_', ' ')
NonStandardChars == AlphaNum \cup {".", "-", "_", " "}

\* a parser's result whose output is a string
SFail(i) == [ok |-> FALSE, rest |-> i, out |-> <<>>]

\* a parser's result whose output is a number
NFail(i) == [ok |-> FALSE, rest |-> i, val |-> 0]

\* a parser's result whose output is a version number
VFail(i) == [ok |-> FALSE, rest |-> i, val |-> NoVersion]

\* how many characters at the start of i are in S
PrefixLen(i, S) ==
    CHOOSE k \in 0..Len(i) :
        /\ \A j \in 1..k : i[j] \in S
        /\ k = Len(i) \/ i[k + 1] \notin S

\* winnow::token::take_while(lo..=hi, S)
take_while(lo, hi, S, i) ==
    LET k == min(PrefixLen(i, S), hi)
    IN  IF k >= lo
        THEN [ok |-> TRUE, rest |-> SubSeq(i, k + 1, Len(i)), out |-> SubSeq(i, 1, k)]
        ELSE SFail(i)

\* winnow::ascii::digit1
digit1(i) == take_while(1, Len(i), DecDigits, i)

\* a string literal as a parser
literal(t, i) ==
    IF starts_with(i, t)
    THEN [ok |-> TRUE, rest |-> SubSeq(i, Len(t) + 1, Len(i)), out |-> t]
    ELSE SFail(i)

\* mutant of parse_to_u8: a number of any size is taken
parse_to_any(r, i) ==
    IF r.ok
    THEN [ok |-> TRUE, rest |-> r.rest, val |-> DecimalValue(r.out)]
    ELSE NFail(i)

\* .parse_to::<u8>() of a parser r that gave digits: u8::from_str
parse_to_u8(r, i) ==
    IF r.ok /\ DecimalValue(r.out) <= 255
    THEN [ok |-> TRUE, rest |-> r.rest, val |-> DecimalValue(r.out)]
    ELSE NFail(i)

Release(major, minor, patch) ==
    [NoVersion EXCEPT !.variant = "Release", !.major = major, !.minor = minor,
                      !.patch = patch]

PreRelease(release, pre) ==
    [release EXCEPT !.variant = "PreRelease", !.pre_release = pre]

Snapshot(year, week, letter) ==
    [NoVersion EXCEPT !.variant = "Snapshot", !.year = year, !.week = week,
                      !.snapshot = letter]

NonStandard(t) == [NoVersion EXCEPT !.variant = "NonStandard", !.text = t]

\* minecraft.rs:41-60
release_version(i) ==
    LET major == parse_to_u8(digit1(i), i)
        dot == literal(<<".">>, major.rest)
        minor == parse_to_u8(digit1(dot.rest), dot.rest)
        dot2 == literal(<<".">>, minor.rest)
        patch == parse_to_u8(digit1(dot2.rest), dot2.rest)
    IN  IF ~(major.ok /\ dot.ok /\ minor.ok) THEN VFail(i)
        ELSE IF dot2.ok /\ patch.ok
             THEN [ok |-> TRUE, rest |-> patch.rest,
                   val |-> Release(major.val, minor.val, patch.val)]
             ELSE [ok |-> TRUE, rest |-> minor.rest,
                   val |-> Release(major.val, minor.val, 0)]

\* minecraft.rs:77-92
pre_release_version(i) ==
    LET rv == release_version(i)
        sep == literal(<<"-">>, rv.rest)
        pre == literal(<<"p", "r", "e">>, sep.rest)
        rc == literal(<<"r", "c">>, sep.rest)
        pre_s == IF pre.ok THEN pre ELSE rc
        pre_n == digit1(pre_s.rest)
    IN  IF rv.ok /\ sep.ok /\ pre_s.ok /\ pre_n.ok
        THEN [ok |-> TRUE, rest |-> pre_n.rest,
              val |-> PreRelease(rv.val, pre_s.out \o pre_n.out)]
        ELSE VFail(i)

\* mutant of snapshot_version: year and week of any number of digits
snapshot_version_any_digits(i) ==
    LET year == parse_to_u8(digit1(i), i)
        w == literal(<<"w">>, year.rest)
        week == parse_to_u8(digit1(w.rest), w.rest)
        letter == take_while(1, 1, LowerCase, week.rest)
    IN  IF year.ok /\ w.ok /\ week.ok /\ letter.ok
        THEN [ok |-> TRUE, rest |-> letter.rest,
              val |-> Snapshot(year.val, week.val, letter.out[1])]
        ELSE VFail(i)

\* minecraft.rs:111-128
snapshot_version(i) ==
    LET year == parse_to_u8(take_while(2, 2, DecDigits, i), i)
        w == literal(<<"w">>, year.rest)
        week == parse_to_u8(take_while(2, 2, DecDigits, w.rest), w.rest)
        letter == take_while(1, 1, LowerCase, week.rest)
    IN  IF year.ok /\ w.ok /\ week.ok /\ letter.ok
        THEN [ok |-> TRUE, rest |-> letter.rest,
              val |-> Snapshot(year.val, week.val, letter.out[1])]
        ELSE VFail(i)

\* minecraft.rs:162-163
non_standard_version(i) ==
    LET t == take_while(4, Len(i), NonStandardChars, i)
    IN  IF t.ok THEN [ok |-> TRUE, rest |-> t.rest, val |-> NonStandard(t.out)]
        ELSE VFail(i)

\* mutant of version_number: the release parser is tried before the
\* pre-release parser
version_number_release_first(i) ==
    IF release_version(i).ok THEN release_version(i)
    ELSE IF pre_release_version(i).ok THEN pre_release_version(i)
    ELSE IF snapshot_version(i).ok THEN snapshot_version(i)
    ELSE non_standard_version(i)

\* minecraft.rs:150-173  alt: the first alternative that matches
version_number(i) ==
    IF pre_release_version(i).ok THEN pre_release_version(i)
    ELSE IF release_version(i).ok THEN release_version(i)
    ELSE IF snapshot_version(i).ok THEN snapshot_version(i)
    ELSE non_standard_version(i)

\* winnow Parser::parse: the parser must match and leave no input
parse(r) == IF r.ok /\ r.rest = <<>> THEN [ok |-> TRUE, val |-> r.val] ELSE NoParse

\* <VersionNumber as FromStr>::from_str  (minecraft.rs:142-148)
from_str(s) == parse(version_number(s))

\* minecraft.rs:130-139  #[serde(untagged)]: the variants are tried in the
\* order of their declaration, the first that deserializes is taken.  The
\* three structs are DeserializeFromStr, which is their FromStr on the whole
\* string; NonStandard(String) takes any string.
deserialize(s) ==
    IF parse(release_version(s)).ok THEN parse(release_version(s))
    ELSE IF parse(pre_release_version(s)).ok THEN parse(pre_release_version(s))
    ELSE IF parse(snapshot_version(s)).ok THEN parse(snapshot_version(s))
    ELSE [ok |-> TRUE, val |-> NonStandard(s)]

(***************************************************************************)
(* Display (minecraft.rs:22-30, 62-63, 94-95, 131).                        *)
(***************************************************************************)
\* <u8 as Display>::fmt
RECURSIVE fmt_u8(_)
fmt_u8(n) ==
    IF n < 10 THEN <<Digits[n + 1]>>
    ELSE fmt_u8(n \div 10) \o <<Digits[(n % 10) + 1]>>

\* <ReleaseVersionNumber as Display>::fmt
fmt_release(v) ==
    IF v.patch = 0
    THEN fmt_u8(v.major) \o <<".">> \o fmt_u8(v.minor)
    ELSE fmt_u8(v.major) \o <<".">> \o fmt_u8(v.minor) \o <<".">> \o fmt_u8(v.patch)

\* #[display("{release}-{pre_release}")]
fmt_pre_release(v) == fmt_release(v) \o <<"-">> \o v.pre_release

\* #[display("{year}w{week}{snapshot}")]
fmt_snapshot(v) == fmt_u8(v.year) \o <<"w">> \o fmt_u8(v.week) \o <<v.snapshot>>

\* <VersionNumber as Display>::fmt, derived: the payload's Display
to_string(v) ==
    IF v.variant = "Release" THEN fmt_release(v)
    ELSE IF v.variant = "PreRelease" THEN fmt_pre_release(v)
    ELSE IF v.variant = "Snapshot" THEN fmt_snapshot(v)
    ELSE v.text

(***************************************************************************)
(* The strings that are parsed.                                            *)
(***************************************************************************)
\* longest string made from Alphabet
MaxLen == 4

Alphabet == {"0", "1", ".", "-", "w", "a"}

\* every string of at most MaxLen characters of Alphabet
ShortStrings == UNION {[1..n -> Alphabet] : n \in 0..MaxLen}

\* ids as the version manifest writes them
ManifestStrings ==
    {<<"1", ".", "2", "0">>,
     <<"1", ".", "2", "0", ".", "1">>,
     <<"1", ".", "2", "0", ".", "1", "-", "p", "r", "e", "1">>,
     <<"1", ".", "1", "6", ".", "4", "-", "r", "c", "1">>,
     <<"1", "3", "w", "0", "1", "a">>,
     <<"2", "3", "w", "1", "3", "a">>,
     <<"0", "8", "w", "4", "1", "a">>,
     <<"f", "o", "o", "b", "a", "r">>,
     <<"3", "D", " ", "S", "h", "a", "r", "e", "w", "a", "r", "e", " ", "v", "1", ".", "3", "4">>,
     <<"1", ".", "1", "4", "_", "c", "o", "m", "b", "a", "t", "-", "2", "1", "2", "7", "9", "6">>,
     <<"b", "1", ".", "7", ".", "3">>}

\* the inputs of the tests of minecraft.rs, and some more of their kind
TestStrings ==
    {<<"1", ".", "2", ".", "3">>,
     <<"1", ".", "2">>,
     <<"1">>,
     <<"1", ".", "2", ".">>,
     <<"1", ".", "2", ".", "3", ".">>,
     <<"0", ".", "0", "1", ".", "2">>,
     <<"1", "0", ".", "1", "2", ".", "2", "4">>,
     <<"1", ".", "0", ".", "2", "5", "6">>,
     <<"2", "5", "6", ".", "1">>,
     <<"1", ".", "2", "5", "6">>,
     <<"1", ".", "2", ".", "3", "-", "p", "r", "e", "1">>,
     <<"1", ".", "2", ".", "3", "-", "r", "c">>,
     <<"1", ".", "2", ".", "3", "-", "p", "r", "e", "a">>,
     <<"1", ".", "2", "-", "p", "r", "e", "9", "9">>,
     <<"1", ".", "2", ".", "3", "-", "r", "c", "2", "x">>,
     <<"1", ".", "0", ".", "2", "5", "6", "-", "p", "r", "e", "1">>,
     <<"1", "3", "w", "2", "4", "a">>,
     <<"2", "4", "w", "1", "1">>,
     <<"2", "2", "w", "4", "3", "a", "1">>,
     <<"1", "w", "0", "5", "a">>,
     <<"1", "2", "w", "4", "a">>,
     <<"1", "5", "w", "0", "8", "1">>,
     <<"1", "7", "a", "2", "2", "b">>,
     <<"1", "4", "w", "3", "8", ".">>,
     <<"1", "6", "w", "1", "9", "a", "b">>,
     <<"1", "3", "w", "2", "4", "A">>,
     <<"a", "b", "c">>,
     <<"a", "b", "c", "!">>,
     <<"a", "b", " ", "c", "d">>,
     <<"1", ".", "2", "0", ".", "1", "+", "x">>}

Inputs == ShortStrings \cup ManifestStrings \cup TestStrings

(***************************************************************************)
(* A string is parsed, and what was parsed is formatted.                   *)
(***************************************************************************)
InitParse ==
    /\ InstallInit(<<"1.20.1">>)
    /\ CacheInit(NoFile)
    /\ \E s \in Inputs : ParseInit(s)
    /\ IdIdle

\* s.parse::<VersionNumber>()
Parse ==
    /\ ppc = "input"
    /\ parsed' = from_str(input)
    /\ ppc' = "parsed"
    /\ UNCHANGED <<input, shown, released, snapped, deserialized>>
    /\ UNCHANGED outsideParse

\* parsed.to_string()
Show ==
    /\ ppc = "parsed"
    /\ parsed.ok
    /\ shown' = to_string(parsed.val)
    /\ ppc' = "shown"
    /\ UNCHANGED <<input, parsed, released, snapped, deserialized>>
    /\ UNCHANGED outsideParse

\* <ReleaseVersionNumber as FromStr>::from_str  (minecraft.rs:32-39)
ParseRelease ==
    /\ ppc = "input"
    /\ released' = parse(release_version(input))
    /\ ppc' = "released"
    /\ UNCHANGED <<input, parsed, shown, snapped, deserialized>>
    /\ UNCHANGED outsideParse

\* <SnapshotVersionNumber as FromStr>::from_str  (minecraft.rs:103-109)
ParseSnapshot ==
    /\ ppc = "input"
    /\ snapped' = parse(snapshot_version(input))
    /\ ppc' = "snapped"
    /\ UNCHANGED <<input, parsed, shown, released, deserialized>>
    /\ UNCHANGED outsideParse

\* serde_json::from_str::<VersionNumber>: the JSON string input is handed to
\* the derived Deserialize of the untagged enum  (minecraft.rs:130-139)
Deserialize ==
    /\ ppc = "input"
    /\ deserialized' = deserialize(input)
    /\ ppc' = "deserialized"
    /\ UNCHANGED <<input, parsed, shown, released, snapped>>
    /\ UNCHANGED outsideParse

NextParse == Parse \/ Show \/ ParseRelease \/ ParseSnapshot \/ Deserialize

SpecParse == InitParse /\ [][NextParse]_vars

(***************************************************************************)
(* GeneratedIdentifier (identifiers/generated.rs): a u64 and its string    *)
(* form in Crockford's base32.  A u64 is held as its 64 binary digits.     *)
(***************************************************************************)
\* generated.rs:8  crockford's base32 (lowercase)
ALPHABET ==
    <<"0", "1", "2", "3", "4", "5", "6", "7", "8", "9", "a", "b", "c", "d", "e", "f",
      "g", "h", "j", "k", "m", "n", "p", "q", "r", "s", "t", "v", "w", "x", "y", "z">>

\* generated.rs:15-16  spec.translate
translate_from ==
    <<"O", "o", "I", "i", "L", "l", "A", "B", "C", "D", "E", "F", "G", "H",
      "J", "K", "M", "N", "P", "Q", "R", "S", "T", "V", "W", "X", "Y", "Z">>

translate_to ==
    <<"0", "0", "1", "1", "1", "1", "a", "b", "c", "d", "e", "f", "g", "h",
      "j", "k", "m", "n", "p", "q", "r", "s", "t", "v", "w", "x", "y", "z">>

\* IdentifierValue::BITS
BITS == 64

Pow2(k) == IF k = 0 THEN 1 ELSE IF k = 1 THEN 2 ELSE IF k = 2 THEN 4
           ELSE IF k = 3 THEN 8 ELSE IF k = 4 THEN 16 ELSE IF k = 5 THEN 32
           ELSE IF k = 6 THEN 64 ELSE IF k = 7 THEN 128 ELSE 256

\* usize::ilog2
ilog2(n) == CHOOSE k \in 0..8 : Pow2(k) <= n /\ n < Pow2(k + 1)

\* u32::div_ceil
div_ceil(a, b) == (a + b - 1) \div b

\* generated.rs:9
IDENTIFIER_LENGTH == div_ceil(BITS, ilog2(Len(ALPHABET)))

\* the 8 binary digits of a byte, the most significant first
BitsOf(b) == [j \in 1..8 |-> (b \div Pow2(8 - j)) % 2]

\* the number that w binary digits from position p of bits denote; digits
\* past the end are 0
Number(bits, p, w) ==
    LET d(j) == IF p + j - 1 <= Len(bits) THEN bits[p + j - 1] ELSE 0
        sum[j \in 0..w] == IF j = 0 THEN 0 ELSE 2 * sum[j - 1] + d(j)
    IN  sum[w]

\* mutant of to_le_bytes: the most significant byte first
to_be_bytes(v) == [k \in 1..(BITS \div 8) |-> Number(v, 8 * (k - 1) + 1, 8)]

\* u64::to_le_bytes: the least significant byte first
to_le_bytes(v) == [k \in 1..(BITS \div 8) |-> Number(v, BITS - 8 * k + 1, 8)]

\* u64::from_le_bytes
from_le_bytes(b) ==
    [j \in 1..(8 * Len(b)) |-> BitsOf(b[Len(b) - ((j - 1) \div 8)])[((j - 1) % 8) + 1]]

\* the binary digits of a sequence of bytes, in the order of the encoding
\* (data_encoding's default bit order: most significant first)
AllBits(bytes) ==
    [j \in 1..(8 * Len(bytes)) |-> BitsOf(bytes[((j - 1) \div 8) + 1])[((j - 1) % 8) + 1]]

\* ENCODER.encode: 5 binary digits per symbol, no padding characters; the
\* last symbol is filled up with zeros
encode(bytes) ==
    [g \in 1..div_ceil(8 * Len(bytes), 5) |->
        ALPHABET[Number(AllBits(bytes), 5 * (g - 1) + 1, 5) + 1]]

\* generated.rs:35-37
as_str(v) == encode(to_le_bytes(v))

IndexIn(seq, c) ==
    IF \E k \in 1..Len(seq) : seq[k] = c
    THEN CHOOSE k \in 1..Len(seq) : seq[k] = c
    ELSE 0

\* the value of a symbol after translation, -1 if it is no symbol
SymbolValue(c) ==
    LET t == IF IndexIn(translate_from, c) # 0
             THEN translate_to[IndexIn(translate_from, c)] ELSE c
    IN  IndexIn(ALPHABET, t) - 1

DecodeOk(bytes) == [ok |-> TRUE, bytes |-> bytes, kind |-> "", position |-> 0]

DecodeError(kind, position) ==
    [ok |-> FALSE, bytes |-> <<>>, kind |-> kind, position |-> position]

\* ENCODER.decode: the length must be one that encode produces, every
\* character a symbol, and the binary digits that fill up the last symbol 0
decode(t) ==
    LET n == Len(t)
        ilen == n - (((n * 5) % 8) \div 5)
        bad == {k \in 1..n : SymbolValue(t[k]) < 0}
        first == CHOOSE k \in bad : \A j \in bad : k <= j
        bits == [j \in 1..(5 * n) |->
                   (SymbolValue(t[((j - 1) \div 5) + 1]) \div Pow2(4 - ((j - 1) % 5))) % 2]
        olen == (5 * n) \div 8
    IN  IF ilen # n THEN DecodeError("Length", ilen)
        ELSE IF bad # {} THEN DecodeError("Symbol", first - 1)
        ELSE IF \E j \in (8 * olen + 1)..(5 * n) : bits[j] # 0
             THEN DecodeError("Trailing", n - 1)
        ELSE DecodeOk([k \in 1..olen |-> Number(bits, 8 * (k - 1) + 1, 8)])

\* generated.rs:50-70  <GeneratedIdentifier as FromStr>::from_str
id_from_str(t) ==
    IF Len(t) # IDENTIFIER_LENGTH
    THEN IdErr("InvalidLength", Len(t), "")
    ELSE LET d == decode(t)
         IN  IF ~d.ok
             THEN IF d.kind = "Symbol"
                  THEN IdErr("InvalidCharacter", 0, t[d.position + 1])
                  ELSE IdErr("Other", 0, "")
             ELSE IF Len(d.bytes) # BITS \div 8
                  THEN IdErr("panic", 0, "")
                  ELSE IdOk(from_le_bytes(d.bytes))

\* the values of the model, by their bytes: all zeros and ones, bytes of
\* mixed digits, and bytes that all differ
IdBytes ==
    [1..(BITS \div 8) -> {0, 255}]
        \cup [1..(BITS \div 8) -> {90, 165}]
        \cup {<<165, 0, 255, 0, 0, 255, 165, 255>>,
              <<1, 2, 3, 4, 5, 6, 7, 8>>,
              <<1, 0, 0, 0, 0, 0, 0, 0>>,
              <<0, 0, 0, 0, 0, 0, 0, 128>>,
              <<254, 220, 186, 152, 118, 84, 50, 16>>}

\* any::<IdentifierValue>()
IdValues == {from_le_bytes(b) : b \in IdBytes}

\* 12 characters of the alphabet
TwelveSymbols == [k \in 1..12 |-> ALPHABET[k]]

\* the strings that are parsed without having been made by as_str
IdTexts ==
    {<<>>,
     <<"a", "b", "c">>,
     <<"a", "b", "!">>,
     <<"a", "b", "c", "d", "e", "f", "g", "h", "i", "j">>,
     TwelveSymbols,
     TwelveSymbols \o <<"!">>,
     TwelveSymbols \o <<"0">>,
     TwelveSymbols \o <<"1">>,
     TwelveSymbols \o <<"u">>,
     TwelveSymbols \o <<"Z">>,
     <<"O", "o", "I", "i", "L", "l", "A", "B", "C", "D", "E", "F", "G">>,
     TwelveSymbols \o <<"0", "0">>,
     TwelveSymbols \o <<"!", "!">>}

InitId ==
    /\ InstallInit(<<"1.20.1">>)
    /\ CacheInit(NoFile)
    /\ ParseInit(<<>>)
    /\ specInput = <<>>
    /\ specPc = "idle"
    /\ specParsed = SpecErr
    /\ idParsed = NoIdResult
    /\ \/ idPc = "value" /\ idValue \in IdValues /\ idText = <<>>
       \/ idPc = "text" /\ idValue = <<>> /\ idText \in IdTexts

\* id.as_str()
AsStr ==
    /\ idPc = "value"
    /\ idText' = as_str(idValue)
    /\ idPc' = "encoded"
    /\ UNCHANGED <<idValue, idParsed>>
    /\ UNCHANGED outsideId

\* s.parse::<GeneratedIdentifier>()
FromStr ==
    /\ idPc \in {"encoded", "text"}
    /\ idParsed' = id_from_str(idText)
    /\ idPc' = IF idPc = "encoded" THEN "decoded" ELSE "parsed"
    /\ UNCHANGED <<idValue, idText>>
    /\ UNCHANGED outsideId

NextId == AsStr \/ FromStr

SpecId == InitId /\ [][NextId]_vars

(***************************************************************************)
(* Server specifications: lib.rs, command/install.rs, metadata.rs.         *)
(***************************************************************************)
UpperLetters ==
    <<"A", "B", "C", "D", "E", "F", "G", "H", "I", "J", "K", "L", "M",
      "N", "O", "P", "Q", "R", "S", "T", "U", "V", "W", "X", "Y", "Z">>

LowerLetters ==
    <<"a", "b", "c", "d", "e", "f", "g", "h", "i", "j", "k", "l", "m",
      "n", "o", "p", "q", "r", "s", "t", "u", "v", "w", "x", "y", "z">>

\* str::to_lowercase
to_lowercase(t) ==
    [k \in 1..Len(t) |->
        IF IndexIn(UpperLetters, t[k]) # 0
        THEN LowerLetters[IndexIn(UpperLetters, t[k])] ELSE t[k]]

Vanilla == <<"v", "a", "n", "i", "l", "l", "a">>

Fabric == <<"f", "a", "b", "r", "i", "c">>

Forge == <<"f", "o", "r", "g", "e">>

Neoforge == <<"n", "e", "o", "f", "o", "r", "g", "e">>

Paper == <<"p", "a", "p", "e", "r">>

\* metadata.rs:21-29  a ServerKind is kept by its name in lowercase
ServerKind == {Vanilla, Fabric, Forge, Neoforge, Paper}

\* metadata.rs:31-46  <ServerKind as FromStr>::from_str
ServerKind_from_str(t) ==
    IF to_lowercase(t) \in ServerKind
    THEN [ok |-> TRUE, kind |-> to_lowercase(t)]
    ELSE [ok |-> FALSE, kind |-> <<>>]

\* the name of NamedId::default() (identifiers.rs)
unnamed == <<"u", "n", "n", "a", "m", "e", "d">>

\* command/install.rs:56
placeholder == <<"p", "l", "a", "c", "e", "h", "o", "l", "d", "e", "r">>

\* lib.rs:77-79  parse_server_spec, the value_parser of Command::Install
lib_parse_server_spec(t) == SpecOk(DefaultVersion, <<>>, <<>>)

\* command/install.rs:45-65  <ServerSpec as FromStr>::from_str
install_from_str(t) ==
    LET parts == split(t, ":")
        v == parts[1]
        name == IF Len(parts) >= 2 THEN parts[2] ELSE placeholder
        server_type == IF Len(parts) >= 3 THEN parts[3] ELSE Vanilla
    IN  IF v # <<>>
        THEN IF from_str(v).ok
             THEN SpecOk(VersionOfNumber(from_str(v).val), name, server_type)
             ELSE SpecErr
        ELSE SpecOk(DefaultVersion, name, server_type)

\* <VersionId as FromStr>::from_str: a version id is the string given
VersionId_from_str(t) == [ok |-> t # <<>>, id |-> t]

\* (AsChar::is_alphanum, '-', '_')
NameChars ==
    {UpperLetters[k] : k \in 1..26} \cup {LowerLetters[k] : k \in 1..26}
        \cup {"0", "1", "2", "3", "4", "5", "6", "7", "8", "9", "-", "_"}

\* the result of one field parser: what it made and the input it left
Field(val, rest) == [ok |-> TRUE, val |-> val, rest |-> rest]

FieldFail == [ok |-> FALSE, val |-> <<>>, rest |-> <<>>]

\* metadata.rs:57-65  the version field
spec_version(i) ==
    IF i = <<>> THEN Field(DefaultVersion, i)
    ELSE IF Head(i) = ":" THEN Field(DefaultVersion, Tail(i))
    ELSE LET colon == IndexIn(i, ":")
             text == IF colon # 0 THEN SubSeq(i, 1, colon - 1) ELSE i
             rest == IF colon # 0 THEN SubSeq(i, colon + 1, Len(i)) ELSE <<>>
         IN  IF VersionId_from_str(text).ok
             THEN Field(VersionOfId(VersionId_from_str(text).id), rest)
             ELSE FieldFail

\* metadata.rs:67-80  the name field
spec_id(i) ==
    IF i = <<>> THEN Field(unnamed, i)
    ELSE IF Head(i) = ":" THEN Field(unnamed, Tail(i))
    ELSE LET n == CHOOSE k \in 0..Len(i) :
                     /\ \A j \in 1..k : i[j] \in NameChars
                     /\ k < Len(i) => i[k + 1] \notin NameChars
         IN  IF n = 0 THEN FieldFail
             ELSE IF n = Len(i) THEN Field(SubSeq(i, 1, n), <<>>)
             ELSE IF i[n + 1] = ":" THEN Field(SubSeq(i, 1, n), SubSeq(i, n + 2, Len(i)))
             ELSE FieldFail

\* metadata.rs:82-87  the server type field
spec_server_type(i) ==
    IF i = <<>> THEN Field(Vanilla, i)
    ELSE IF ServerKind_from_str(i).ok
         THEN Field(ServerKind_from_str(i).kind, <<>>)
         ELSE FieldFail

\* metadata.rs:56-105  parse_server_spec.parse(s)
metadata_from_str(t) ==
    LET version == spec_version(t)
        id == spec_id(version.rest)
        server_type == spec_server_type(id.rest)
    IN  IF ~version.ok THEN SpecErr
        ELSE IF ~id.ok THEN SpecErr
        ELSE IF ~server_type.ok THEN SpecErr
        ELSE IF server_type.rest # <<>> THEN SpecErr
        ELSE SpecOk(version.val, id.val, server_type.val)

GivenVersions == {<<>>, <<"1", ".", "2", "0", ".", "1">>, <<"1", ".", "2">>}

GivenNames ==
    {<<>>, <<"m", "y", "-", "s", "e", "r", "v", "e", "r">>, <<"s", "r", "v", "_", "1">>}

GivenTypes ==
    {<<>>, Vanilla, Fabric, Forge, Neoforge, Paper,
     <<"F", "o", "r", "g", "e">>, <<"F", "A", "B", "R", "I", "C">>,
     <<"b", "o", "g", "u", "s">>}

\* the specifications of the model: the version alone, version and name,
\* and all three parts, each part given or empty
ServerSpecs ==
    GivenVersions
        \cup {v \o <<":">> \o n : v \in GivenVersions, n \in GivenNames}
        \cup {v \o <<":">> \o n \o <<":">> \o k :
                 v \in GivenVersions, n \in GivenNames, k \in GivenTypes}

InitServer ==
    /\ InstallInit(<<"1.20.1">>)
    /\ CacheInit(NoFile)
    /\ ParseInit(<<>>)
    /\ idValue = <<>>
    /\ idText = <<>>
    /\ idPc = "idle"
    /\ idParsed = NoIdResult
    /\ specInput \in ServerSpecs
    /\ specPc = "input"
    /\ specParsed = SpecErr

\* mcdl install <spec>: clap calls the value_parser of lib.rs
ParseLibSpec ==
    /\ specPc = "input"
    /\ specParsed' = lib_parse_server_spec(specInput)
    /\ specPc' = "lib"
    /\ UNCHANGED specInput
    /\ UNCHANGED outsideServer

\* InstallCmd of command/install.rs: clap calls ServerSpec::from_str
ParseInstallSpec ==
    /\ specPc = "input"
    /\ specParsed' = install_from_str(specInput)
    /\ specPc' = "install"
    /\ UNCHANGED specInput
    /\ UNCHANGED outsideServer

\* s.parse::<ServerSpec>() of metadata.rs
ParseMetadataSpec ==
    /\ specPc = "input"
    /\ specParsed' = metadata_from_str(specInput)
    /\ specPc' = "metadata"
    /\ UNCHANGED specInput
    /\ UNCHANGED outsideServer

NextServer == ParseLibSpec \/ ParseInstallSpec \/ ParseMetadataSpec

SpecServer == InitServer /\ [][NextServer]_vars

(***************************************************************************)
(* Claims about the version number parsers.                                *)
(***************************************************************************)
\* VersionNumber::from_str was applied to the input
WasParsed == ppc \in {"parsed", "shown"}

\* the canonical strings that the round trip is claimed for
CanonicalStrings ==
    {<<"1", ".", "2", "0">>,
     <<"1", ".", "2", "0", ".", "1">>,
     <<"1", ".", "2", "0", ".", "1", "-", "p", "r", "e", "1">>,
     <<"1", "3", "w", "0", "1", "a">>,
     <<"2", "3", "w", "1", "3", "a">>,
     <<"f", "o", "o", "b", "a", "r">>}

\* C12 as claimed: a canonical manifest version string parses, and what was
\* parsed is formatted as the string itself.
C12_CanonicalStringsRoundTrip ==
    (input \in CanonicalStrings) =>
        /\ WasParsed => parsed.ok
        /\ ppc = "shown" => shown = input

\* the grammars of the three structured forms, read off the string
AllDigits(t) == t # <<>> /\ \A k \in 1..Len(t) : t[k] \in DecDigits

IsU8Field(t) == AllDigits(t) /\ DecimalValue(t) <= 255

IsReleaseString(t) ==
    LET f == split(t, ".")
    IN  Len(f) \in {2, 3} /\ \A k \in 1..Len(f) : IsU8Field(f[k])

IsPreReleaseLabel(t) ==
    \/ starts_with(t, <<"p", "r", "e">>) /\ AllDigits(SubSeq(t, 4, Len(t)))
    \/ starts_with(t, <<"r", "c">>) /\ AllDigits(SubSeq(t, 3, Len(t)))

IsPreReleaseString(t) ==
    LET f == split(t, "-")
    IN  Len(f) = 2 /\ IsReleaseString(f[1]) /\ IsPreReleaseLabel(f[2])

IsSnapshotString(t) ==
    /\ Len(t) = 6
    /\ t[1] \in DecDigits /\ t[2] \in DecDigits
    /\ t[3] = "w"
    /\ t[4] \in DecDigits /\ t[5] \in DecDigits
    /\ t[6] \in LowerCase

IsStructuredString(t) ==
    IsReleaseString(t) \/ IsPreReleaseString(t) \/ IsSnapshotString(t)

\* C13: a string of the form Release "-" (pre|rc) digits parses to
\* PreRelease, a release string parses to Release, and a string of two
\* digits, "w", two digits and a lowercase letter parses to Snapshot.
C13_ClassificationPrecedence ==
    WasParsed =>
        /\ IsPreReleaseString(input) =>
             parsed.ok /\ parsed.val.variant = "PreRelease"
        /\ IsReleaseString(input) =>
             parsed.ok /\ parsed.val.variant = "Release"
        /\ IsSnapshotString(input) =>
             parsed.ok /\ parsed.val.variant = "Snapshot"

\* "1.20.1-pre1" was parsed to the pre-release pre1 of 1.20.1
C13_Witness ==
    /\ ppc = "parsed"
    /\ IsPreReleaseString(input)
    /\ parsed.ok
    /\ parsed.val = PreRelease(Release(1, 20, 1), <<"p", "r", "e", "1">>)

InAlphabet(t) == \A k \in 1..Len(t) : t[k] \in NonStandardChars

\* C14 as claimed, for the strings of the documented alphabet: a string that
\* has none of the three structured forms parses to NonStandard of the
\* string itself when it has 4 characters or more, and fails to parse when
\* it has fewer.
C14_UnstructuredStringsAreNonStandard ==
    (WasParsed /\ InAlphabet(input) /\ ~IsStructuredString(input)) =>
        IF Len(input) >= 4
        THEN parsed.ok /\ parsed.val = NonStandard(input)
        ELSE ~parsed.ok

\* C15 as claimed: every string of 4 or more characters of the documented
\* alphabet parses, to one variant.
C15_ParsingIsTotalOverAlphabet ==
    (WasParsed /\ InAlphabet(input) /\ Len(input) >= 4) =>
        /\ parsed.ok
        /\ parsed.val.variant \in {"Release", "PreRelease", "Snapshot", "NonStandard"}

\* the fields of a release string
FieldsOf(t) == split(t, ".")

\* the release that a release string denotes
ReleaseOf(t) ==
    LET f == FieldsOf(t)
    IN  Release(DecimalValue(f[1]), DecimalValue(f[2]),
                IF Len(f) = 3 THEN DecimalValue(f[3]) ELSE 0)

\* the part of the input that release_version consumes
ConsumedByRelease(t) == SubSeq(t, 1, Len(t) - Len(release_version(t).rest))

\* C20: release_version.parse accepts exactly the strings
\* digits "." digits ["." digits] whose fields fit a u8, with leading zeros
\* allowed and a missing patch read as 0; a field above 255, a single field
\* and a trailing dot are rejected.  What release_version consumes of a
\* longer input is a release string without a "-", and what follows it is
\* left in the input; in a version number that was parsed to a Release or a
\* PreRelease, the release is followed by the end of the input or by "-".
C20_ReleaseParserAcceptsExactlyReleases ==
    /\ ppc = "released" =>
          /\ released.ok <=> IsReleaseString(input)
          /\ released.ok => released.val = ReleaseOf(input)
    /\ release_version(input).ok =>
          /\ IsReleaseString(ConsumedByRelease(input))
          /\ release_version(input).val = ReleaseOf(ConsumedByRelease(input))
          /\ input = ConsumedByRelease(input) \o release_version(input).rest
    /\ (ppc \in {"parsed", "shown"} /\ parsed.ok
           /\ parsed.val.variant \in {"Release", "PreRelease"}) =>
          \/ release_version(input).rest = <<>>
          \/ Head(release_version(input).rest) = "-"

\* "0.01.2" was parsed to the release 0.1.2
C20_Witness ==
    /\ ppc = "released"
    /\ input = <<"0", ".", "0", "1", ".", "2">>
    /\ released.ok
    /\ released.val = Release(0, 1, 2)

\* the snapshot that a snapshot string denotes
SnapshotOf(t) ==
    Snapshot(DecimalValue(SubSeq(t, 1, 2)), DecimalValue(SubSeq(t, 4, 5)), t[6])

\* C21: snapshot_version.parse accepts exactly the strings of 2 digits, "w",
\* 2 digits and 1 lowercase letter, and reads year, week and letter off them;
\* a missing letter, a 1-digit year or week, another character in place of
\* the letter and a trailing character are rejected.  VersionNumber::from_str
\* returns Snapshot for exactly the same strings.
C21_SnapshotParserAcceptsExactlySnapshots ==
    /\ ppc = "snapped" =>
          /\ snapped.ok <=> IsSnapshotString(input)
          /\ snapped.ok => snapped.val = SnapshotOf(input)
    /\ WasParsed =>
          /\ (parsed.ok /\ parsed.val.variant = "Snapshot") <=> IsSnapshotString(input)
          /\ IsSnapshotString(input) => parsed.val = SnapshotOf(input)

\* "13w24a" was parsed to the snapshot a of week 24 of year 13
C21_Witness ==
    /\ ppc = "snapped"
    /\ input = <<"1", "3", "w", "2", "4", "a">>
    /\ snapped.ok
    /\ snapped.val = Snapshot(13, 24, "a")

(***************************************************************************)
(* Claims about the ttl of a fetched value.                                *)
(***************************************************************************)
\* the caching call that just returned has fetched a response
FetchedResponse ==
    /\ gpc = "returned"
    /\ ~ZeroTtl
    /\ fetches = 1
    /\ resp.status = 200

\* C18: when the ttl worked out for a fetched response is zero, get_cached
\* returns the fetched value and does not call save: the cache file is as it
\* was when the call began, absent or with its old content.
C18_ZeroResolvedTtlWritesNothing ==
    (FetchedResponse /\ adjusted_ttl(server_ttl(resp), ttl, age(resp)) = 0) =>
        /\ result = Ok(resp.body)
        /\ saves = 0
        /\ last.wrote = FALSE
        /\ cache = cacheAtStart

\* max-age=10 with Age 20: the value is returned and the expired entry of an
\* earlier call, which holds another value, stays in the file
C18_Witness ==
    /\ FetchedResponse
    /\ resp.cc = Some(CC_10)
    /\ resp.age = Some(<<"2", "0">>)
    /\ cacheAtStart.kind = "entry"
    /\ cacheAtStart.inner # resp.body
    /\ cache = cacheAtStart
    /\ result = Ok(resp.body)

\* the Cache-Control headers of the model that carry no usable max-age
NoUsableMaxAge == resp.cc \in {NoHeader, Some(CC_bad_then_120)}

\* C19 as claimed: an entry saved for a response without a usable max-age
\* expires the caller's ttl after the fetch, or 600 s after it when the caller
\* gave none, whatever Age the response carries.
C19_NoMaxAgeTtlIsCallerOrDefault ==
    (FetchedResponse /\ NoUsableMaxAge /\ result.kind = "ok") =>
        cache = Cached(resp.body, now + (IF ttl.some THEN ttl.v ELSE 600))

\* C22 as claimed: a caching call that finds an entry whose expiry is now or
\* earlier does not return the stored payload from the file: it fetches.
C22_EntryServedOnlyBeforeExpiry ==
    (gpc = "returned" /\ ~ZeroTtl /\ cacheAtStart.kind = "entry"
       /\ now >= cacheAtStart.expiry) =>
        fetches = 1

(***************************************************************************)
(* Claims about the metadata store.                                        *)
(***************************************************************************)
\* the JRE task of iteration i has changed META and has not yet written it
BetweenMutationAndPersist(i) == jre[i] = "save"

\* C16 as claimed: from a task's change of the store to its write of the
\* store, no other task reads, changes or writes the store: a step that is
\* taken while a task is between the two leaves META and the file at
\* META_PATH as they are.
C16_StoreLockedFromMutationToPersist ==
    [][\A i \in Slots :
          (BetweenMutationAndPersist(i) /\ jre'[i] = jre[i]) =>
              (metaMem' = metaMem /\ metaDisk' = metaDisk)]_vars

\* no task of this process has changed META without having written it yet
NoTaskInsideStoreUpdate ==
    /\ \A i \in Slots : ~BetweenMutationAndPersist(i)
    /\ runPc # "save"

\* no task of this process has failed (a failed save leaves the change in
\* memory only)
NoTaskFailed ==
    /\ \A i \in Slots : srv[i] # "err" /\ jre[i] # "err"
    /\ runPc # "err"

\* C17 as claimed: whenever no task is inside a store update (and no save has
\* failed), the store on disk equals the store in memory.
C17_DiskStoreEqualsMemoryStore ==
    (NoTaskInsideStoreUpdate /\ NoTaskFailed /\ runPc # "idle") =>
        metaDisk = metaMem

\* C23: a runtime-install task that finds its major recorded in the store at
\* its start (app.rs:178) ends with success, and with the store, the runtime
\* directories and the download counts as they were.  No reachable state has
\* such a task: the dispatch loop spawns a runtime task only for a major that
\* the store does not record and that no earlier iteration has queued
\* (app.rs:141-145), and only a runtime task adds a major to the store.
RuntimeTaskNeverFindsMajorInstalled ==
    /\ \A i \in Slots : jre[i] # "skip"
    /\ \A i \in Slots : jre[i] = "start" => ~jre_installed(metaMem, MajorOf(i))

(***************************************************************************)
(* Claims about GeneratedIdentifier.                                       *)
(***************************************************************************)
LowercaseCrockford ==
    {"0", "1", "2", "3", "4", "5", "6", "7", "8", "9", "a", "b", "c", "d", "e", "f",
     "g", "h", "j", "k", "m", "n", "p", "q", "r", "s", "t", "v", "w", "x", "y", "z"}

\* C24: the string form of an identifier has 13 characters, all of the
\* lowercase Crockford base32 alphabet, and parsing it gives the value back;
\* a string whose length is not 13 is rejected with InvalidLength of its
\* length, whatever its characters are.
C24_IdentifierRoundTrip ==
    /\ IDENTIFIER_LENGTH = 13
    /\ idPc \in {"encoded", "decoded"} =>
          /\ Len(idText) = 13
          /\ \A k \in 1..Len(idText) : idText[k] \in LowercaseCrockford
    /\ idPc = "decoded" => idParsed = IdOk(idValue)
    /\ (idPc = "parsed" /\ Len(idText) # 13) =>
          idParsed = IdErr("InvalidLength", Len(idText), "")

\* a value whose bytes differ was written as a string and parsed back
C24_Witness ==
    /\ idPc = "decoded"
    /\ to_le_bytes(idValue) = <<165, 0, 255, 0, 0, 255, 165, 255>>
    /\ idParsed.ok
    /\ idParsed.value = idValue

(***************************************************************************)
(* Claims about server specifications.                                     *)
(***************************************************************************)
\* the three parts of a specification, an omitted one being empty
GivenPart(j) == IF Len(split(specInput, ":")) >= j THEN split(specInput, ":")[j] ELSE <<>>

\* the version of the result is the one that the text v denotes
VersionIs(v) ==
    /\ ~specParsed.version.default
    /\ IF specPc = "metadata"
       THEN specParsed.version.id = v
       ELSE from_str(v).ok /\ specParsed.version.number = from_str(v).val

\* the result is the one that is documented for the specification
AsDocumented ==
    IF GivenPart(3) # <<>> /\ to_lowercase(GivenPart(3)) \notin ServerKind
    THEN ~specParsed.ok
    ELSE /\ specParsed.ok
         /\ IF GivenPart(1) = <<>> THEN specParsed.version.default
            ELSE VersionIs(GivenPart(1))
         /\ IF GivenPart(2) = <<>> THEN specParsed.name \in {unnamed, placeholder}
            ELSE specParsed.name = GivenPart(2)
         /\ IF GivenPart(3) = <<>> THEN specParsed.server_type = Vanilla
            ELSE specParsed.server_type = to_lowercase(GivenPart(3))

\* C25: a server specification [<version>][:[<name>][:[<server type>]]] is
\* parsed into the parts that are given, an omitted or empty part taking its
\* default (latest version, generated name, vanilla); an unknown server type
\* is an error and the names of the server types are case-insensitive.
C25_ServerSpecParsedAsDocumented ==
    specPc \in {"lib", "install", "metadata"} => AsDocumented

\* the parser of metadata.rs, with a VersionId being the string given, does
\* parse as documented
MetadataSpecParsedAsDocumented ==
    specPc = "metadata" => AsDocumented

\* command/install.rs takes any server type, as it is written, and an empty
\* name; lib.rs returns the default whatever the input is
InstallSpecTakesAnyType ==
    /\ specPc = "install" =>
          /\ specParsed.ok
          /\ specParsed.server_type =
                 (IF Len(split(specInput, ":")) >= 3 THEN split(specInput, ":")[3] ELSE Vanilla)
          /\ specParsed.name =
                 (IF Len(split(specInput, ":")) >= 2 THEN split(specInput, ":")[2] ELSE placeholder)
    /\ specPc = "lib" => specParsed = SpecOk(DefaultVersion, <<>>, <<>>)

(***************************************************************************)
(* Claims about what the store records.                                    *)
(***************************************************************************)
StoreUnchanged == metaMem' = metaMem /\ metaDisk' = metaDisk

\* a runtime that enters the store was unpacked and checked by the task
\* that records it
RuntimeRecordedAfterExtract ==
    \A m \in Majors :
        (m \in metaMem'.jres /\ m \notin metaMem.jres) =>
            /\ jreDir[m] = "ok"
            /\ \/ \E i \in Slots : jre[i] = "add" /\ MajorOf(i) = m /\ jre'[i] = "save"
               \/ runPc = "add" /\ runJre = m

\* an instance that enters the store was downloaded and written by the task
\* that records it; its directory is as that task left it unless a second
\* task for the same version has failed in its own writes since
InstanceRecordedAfterWrites ==
    \A v \in Versions :
        (v \in metaMem'.instances /\ v \notin metaMem.instances) =>
            /\ srvDl[v] >= 1
            /\ \E i \in Slots :
                  /\ srv[i] = "meta" /\ batch[i] = v
                  /\ \/ instDir[v] = "complete"
                     \/ /\ instDir[v] = "partial"
                        /\ \E k \in Slots \ {i} :
                              batch[k] = v /\ srv[k] \in {"err", "aborted"}

\* a task that ends with an error, or is cancelled, before its store update
EarlyFailureKeepsStore ==
    /\ \A i \in Slots :
          (srv[i] \in {"start", "download", "write"} /\ srv'[i] \in {"err", "aborted"})
              => StoreUnchanged
    /\ \A i \in Slots :
          (jre[i] \in {"start", "download"} /\ jre'[i] \in {"err", "aborted"})
              => StoreUnchanged
    /\ (runPc = "download" /\ runPc' = "err") => StoreUnchanged

\* C26: a runtime enters the store only in the step of a task that has
\* downloaded the archive, unpacked it and found bin/java; an instance only
\* in the step of a task that has written server.jar, eula.txt and the
\* settings file; and a task that fails at an earlier step leaves the store
\* as it is.
C26_StoreRecordsOnlyFinishedWork ==
    [][/\ RuntimeRecordedAfterExtract
       /\ InstanceRecordedAfterWrites
       /\ EarlyFailureKeepsStore]_vars

\* a runtime task has recorded its runtime; the server task of the same
\* batch failed in its writes and its version is not in the store
C26_Witness ==
    \E i \in Slots, k \in Slots :
        /\ jre[i] = "done"
        /\ jreDir[MajorOf(i)] = "ok"
        /\ MajorOf(i) \in metaDisk.jres
        /\ srv[k] = "err"
        /\ instDir[batch[k]] = "partial"
        /\ batch[k] \notin metaMem.instances

(***************************************************************************)
(* Claims about a batch that names a version more than once.               *)
(***************************************************************************)
\* a server task that is past the already-installed check of app.rs:76
PassedInstalledCheck(i) == srv[i] \in {"download", "write", "meta", "done"}

\* C27: in one batch at most one server task per version id gets past the
\* already-installed check and downloads the server jar, also when the
\* batch names the version twice.
C27_OneServerInstallPerVersion ==
    /\ \A v \in Versions : srvDl[v] <= 1
    /\ \A i \in Slots, k \in Slots :
          (i # k /\ srv[i] # "none" /\ srv[k] # "none" /\ batch[i] = batch[k])
              => ~(PassedInstalledCheck(i) /\ PassedInstalledCheck(k))

(***************************************************************************)
(* Claims about the retry loop of fetch_json.                              *)
(***************************************************************************)
InFetchJson == gpc \in {"bypass", "fetch"}

\* the loop goes round: a request failed and is made again
RetryStep == InFetchJson /\ gpc' = gpc /\ attempts' = attempts + 1

\* within fetch_json the sleeps add up to at most max_duration, the loop is
\* entered with at most max_duration elapsed, and the exponent of the
\* backoff stays small
SleepWithinBudget ==
    InFetchJson =>
        /\ slept <= max_duration
        /\ slept <= elapsed
        /\ elapsed <= max_duration
        /\ attempts <= 5
        /\ backoff_base * 2^attempts <= 2 * max_duration + 2 * backoff_base

\* a request is made again only while less than max_duration has elapsed,
\* after a sleep of min(25 * 2^attempts, remaining) milliseconds
SleepIsCappedBackoff ==
    RetryStep =>
        LET s == slept' - slept
            el == elapsed' - s
        IN  /\ elapsed < max_duration
            /\ el < max_duration
            /\ s = min(25 * 2^(attempts'), max_duration - el)
            /\ s > 0

\* C28: fetch_json returns on every run; between two requests it sleeps
\* min(25 * 2^attempts ms, remaining), the sleeps add up to at most the
\* 500 ms budget, the exponent is bounded, and once the budget has elapsed
\* the next failure of the retried kinds is returned as an error.
C28_FetchJsonTerminates ==
    /\ []SleepWithinBudget
    /\ [][SleepIsCappedBackoff]_vars
    /\ InFetchJson ~> (gpc = "returned")

\* requests that fail at once: after the sleeps of 50, 100, 200 and the
\* remaining 150 ms the budget is used up
C28_Witness ==
    /\ gpc = "fetch"
    /\ attempts = 4
    /\ slept = max_duration
    /\ elapsed = max_duration

(***************************************************************************)
(* Claims about what a call leaves in the cache file.                      *)
(***************************************************************************)
\* the call that returned made a fetch that failed
FetchFailed ==
    /\ gpc = "returned"
    /\ fetches = 1
    /\ result.kind = "err"
    /\ lastErr.kind # "Save"

\* the call that returned began with an entry and left another file
EntryReplaced ==
    /\ gpc = "returned"
    /\ cacheAtStart.kind = "entry"
    /\ cache # cacheAtStart

\* the ttl that get_cached works out for the response of the call
ResolvedTtl == adjusted_ttl(server_ttl(resp), ttl, age(resp))

\* C29 as claimed: a fetch that fails returns the error and leaves the cache
\* file as it was; an entry is replaced only by the result of a fetch that
\* succeeded with a ttl other than zero, expiring one ttl after the fetch.
C29_EntryReplacedOnlyByFetchResult ==
    /\ FetchFailed => (cache = cacheAtStart /\ saves = 0)
    /\ EntryReplaced =>
          /\ resp.status = 200
          /\ ResolvedTtl > 0
          /\ result = Ok(resp.body)
          /\ cache = Cached(resp.body, now + ResolvedTtl)

\* C29 amended: a fetch that fails returns the error and leaves the cache
\* file as it was; an entry changes only in a call whose fetch succeeded
\* with a ttl other than zero: into the fetched value expiring one ttl after
\* the fetch, or, when the save fails after the file was truncated, into a
\* file that is no entry, and the call then returns the error of the save.
C29_EntryChangesOnlyAfterSuccessfulFetch ==
    /\ FetchFailed => (cache = cacheAtStart /\ saves = 0)
    /\ EntryReplaced =>
          /\ fetches = 1
          /\ saves = 1
          /\ resp.status = 200
          /\ ResolvedTtl > 0
          /\ \/ /\ result = Ok(resp.body)
                /\ cache = Cached(resp.body, now + ResolvedTtl)
             \/ /\ result = Failed(Err("Save"))
                /\ cache = BadFile

\* an expired entry was replaced by another value that was fetched
C29_Witness ==
    /\ EntryReplaced
    /\ now > cacheAtStart.expiry
    /\ result = Ok(resp.body)
    /\ cache.kind = "entry"
    /\ cache.inner # cacheAtStart.inner
    /\ cache.expiry = now + ResolvedTtl

(***************************************************************************)
(* Claims about the two ways from a string to a VersionNumber.             *)
(***************************************************************************)
\* C30: for every string the untagged deserialization and FromStr agree:
\* both fail, or both give the same variant with the same fields.
C30_DeserializeAgreesWithFromStr ==
    ppc = "deserialized" => deserialized = from_str(input)

\* on the strings that FromStr takes as a release, a pre-release or a
\* snapshot the two do agree
DeserializeAgreesOnStructured ==
    (ppc = "deserialized" /\ from_str(input).ok
        /\ from_str(input).val.variant # "NonStandard")
            => deserialized = from_str(input)

====
